---- MODULE Spec2Model ----
(***************************************************************************)
(* Model of the image geometry helpers of the cutout API                   *)
(* (src/api/utils/utils.py): feather_alpha and resize_to_box.              *)
(*                                                                         *)
(* An image is a record [mode, w, h, px]; px maps <<x, y>> (0-based) to a   *)
(* pixel, a tuple of 8-bit channel values (<<r,g,b>> for mode "RGB",        *)
(* <<r,g,b,a>> for mode "RGBA").  Optional[int] arguments are modelled as   *)
(* <<>> (None) or <<n>>.                                                    *)
(*                                                                         *)
(* Library calls are modelled by what they do to sizes and pixels:          *)
(*  - Image.paste with a mask blends every band with the mask's alpha       *)
(*    using Pillow's BLEND/DIV255 integer arithmetic.  Newer Pillow         *)
(*    releases copy the colour bands unblended when the destination pixel   *)
(*    is fully transparent; the state variable alphaAwarePaste selects      *)
(*    which of the two library behaviours the process runs with.            *)
(*  - Image.resize returns a copy when the size is unchanged; otherwise     *)
(*    the Lanczos kernel is abstracted to its centre tap (the source        *)
(*    sample under the centre of each output pixel).                        *)
(*  - cv2.GaussianBlur is a separable fixed-point kernel (weights sum to    *)
(*    256 per axis) with BORDER_REFLECT_101.                                *)
(*  - Python float arithmetic in the scale computation is modelled with     *)
(*    exact rationals and round-half-to-even; on the sizes explored here    *)
(*    (dimensions up to 14) IEEE doubles give the same integers.            *)
(***************************************************************************)
EXTENDS Integers, Sequences, FiniteSets, TLC

VARIABLES
    img, last, prev,      \* one caller of the helpers: image held, last two calls
    alphaAwarePaste,      \* which paste behaviour the installed Pillow has
    heap, cs,             \* image objects and the frames of two callers
    rq,                   \* a /cutout request
    pa,                   \* an /ai/process-all request
    mm,                   \* the ModelManager and its collaborators
    sg                    \* an /ai/segment-object or /ai/segment-by-points request

vars == <<img, last, prev, alphaAwarePaste, heap, cs, rq, pa, mm, sg>>

\* The variables each specification leaves alone.
callVars == <<heap, cs>>
helperVars == <<img, last, prev>>

\* ---------------------------------------------------------------- bounds
MaxSrc == 2
MaxTarget == 3
MaxPad == 1
MaxSeed == 2

\* ------------------------------------------------------- basic arithmetic
Max2(a, b) == IF a >= b THEN a ELSE b
Min2(a, b) == IF a <= b THEN a ELSE b

RECURSIVE SeqSum(_)
SeqSum(s) == IF s = <<>> THEN 0 ELSE Head(s) + SeqSum(Tail(s))

\* Optional[int]
None == <<>>
Some(n) == <<n>>

\* Python truthiness of an Optional[int]: None and 0 are falsy.
IsFalsy(t) == t = None \/ t[1] = 0

\* Python's round() of the rational num/den (den > 0): nearest integer,
\* ties to the even neighbour.
round_half_even(num, den) ==
    LET q == num \div den
        r == num - q * den
    IN  IF 2 * r < den THEN q
        ELSE IF 2 * r > den THEN q + 1
        ELSE IF q % 2 = 0 THEN q ELSE q + 1

\* round(a * b) of Python floats for a = src dimension, b = sn/sd.
py_round(num, den) == round_half_even(num, den)

\* ------------------------------------------------------------ the images
Coords(w, h) == (0 .. (w - 1)) \X (0 .. (h - 1))

NoImage == [mode |-> "none", w |-> 0, h |-> 0, px |-> <<>>]

Transparent == <<0, 0, 0, 0>>

\* Image.new(mode, (w, h), fill)
new_image(mode, w, h, fill) ==
    [mode |-> mode, w |-> w, h |-> h, px |-> [p \in Coords(w, h) |-> fill]]

\* Image.convert("RGBA"): an RGB pixel gains a fully opaque alpha band.
convert_rgba(im) ==
    IF im.mode = "RGBA" THEN im
    ELSE [mode |-> "RGBA", w |-> im.w, h |-> im.h,
          px |-> [p \in DOMAIN im.px |->
                     <<im.px[p][1], im.px[p][2], im.px[p][3], 255>>]]

\* Image.split(): band i of the image, as a map from coordinates.
band(im, i) == [p \in DOMAIN im.px |-> im.px[p][i]]

\* Image.merge("RGBA", (r, g, b, a))
merge_rgba(w, h, r, g, b, a) ==
    [mode |-> "RGBA", w |-> w, h |-> h,
     px |-> [p \in Coords(w, h) |-> <<r[p], g[p], b[p], a[p]>>]]

\* ------------------------------------------------------------ feathering
\* Fixed-point Gaussian kernel for sigma (ksize = round(6*sigma + 1) | 1),
\* weights scaled to sum to 256.
GaussKernel(sigma) ==
    IF sigma = 1 THEN <<1, 14, 62, 102, 62, 14, 1>>
    ELSE <<1, 2, 7, 17, 31, 45, 50, 45, 31, 17, 7, 2, 1>>

\* cv2.BORDER_DEFAULT (reflect-101) index of i in an axis of length n.
reflect101(i, n) ==
    IF n = 1 THEN 0
    ELSE LET p == 2 * (n - 1)
             m == i % p
         IN  IF m < n THEN m ELSE p - m

\* cv2.GaussianBlur(a, (0, 0), sigmaX = sigma, sigmaY = sigma) on a w x h band.
GaussianBlur(a, w, h, sigma) ==
    LET k == GaussKernel(sigma)
        half == (Len(k) - 1) \div 2
        at(x, y) == a[<<reflect101(x, w), reflect101(y, h)>>]
        row(x, y) == SeqSum([i \in 1 .. Len(k) |-> k[i] * at(x + i - 1 - half, y)])
        acc(x, y) == SeqSum([j \in 1 .. Len(k) |-> k[j] * row(x, y + j - 1 - half)])
    IN  [p \in Coords(w, h) |-> (acc(p[1], p[2]) + 32768) \div 65536]

\* Mutant: the blur also runs for radius = 0.
blur_always(radius) == radius >= 0

\* The guard of the blur (utils.py line 17).
blur_wanted(radius) == radius > 0

\* Mutant: the bands are merged in the order b, g, r.
feather_alpha_bgr(img_rgba, radius) ==
    LET im == convert_rgba(img_rgba)
        a == band(im, 4)
        a_np == IF blur_wanted(radius)
                THEN GaussianBlur(a, im.w, im.h, radius)
                ELSE a
    IN  merge_rgba(im.w, im.h, band(im, 3), band(im, 2), band(im, 1), a_np)

feather_alpha(img_rgba, radius) ==
    LET im == convert_rgba(img_rgba)
        a == band(im, 4)
        a_np == IF blur_wanted(radius)
                THEN GaussianBlur(a, im.w, im.h, radius)
                ELSE a
    IN  merge_rgba(im.w, im.h, band(im, 1), band(im, 2), band(im, 3), a_np)

\* --------------------------------------------------------- Pillow pieces
\* DIV255 and BLEND of Pillow's Paste.c (rounded division by 255).
DIV255(a) == LET tmp == a + 128 IN ((tmp \div 256) + tmp) \div 256
BLEND(mask, in1, in2) == DIV255(in1 * (255 - mask) + in2 * mask)

\* One pixel of canvas.paste(im, box, im): every band is blended with the
\* source alpha; an alpha-aware Pillow copies the colour bands of a
\* visible source pixel onto a fully transparent destination.
paste_pixel(out, in, aware) ==
    LET m == in[4]
        cm == IF aware /\ m # 0 /\ out[4] = 0 THEN 255 ELSE m
    IN  <<BLEND(cm, out[1], in[1]), BLEND(cm, out[2], in[2]),
          BLEND(cm, out[3], in[3]), BLEND(m, out[4], in[4])>>

Inside(p, x0, y0, w, h) ==
    /\ x0 <= p[1] /\ p[1] < x0 + w
    /\ y0 <= p[2] /\ p[2] < y0 + h

\* canvas.paste(im, (cx, cy), im): alpha-masked paste, clipped to the canvas.
paste_masked(canvas, im, cx, cy, aware) ==
    [canvas EXCEPT !.px =
        [p \in DOMAIN canvas.px |->
            IF Inside(p, cx, cy, im.w, im.h)
            THEN paste_pixel(canvas.px[p], im.px[<<p[1] - cx, p[2] - cy>>], aware)
            ELSE canvas.px[p]]]

\* out.paste(im, (left, top)) without a mask: a plain copy.
paste_copy(canvas, im, cx, cy) ==
    [canvas EXCEPT !.px =
        [p \in DOMAIN canvas.px |->
            IF Inside(p, cx, cy, im.w, im.h)
            THEN im.px[<<p[1] - cx, p[2] - cy>>]
            ELSE canvas.px[p]]]

\* ImageOps.expand(im, border = pad, fill = (0, 0, 0, 0))
expand(im, pad) ==
    paste_copy(new_image(im.mode, im.w + 2 * pad, im.h + 2 * pad, Transparent),
               im, pad, pad)

\* Image.resize((nw, nh), LANCZOS) of a non-empty image.
resize(im, nw, nh) ==
    IF nw = im.w /\ nh = im.h THEN im
    ELSE [mode |-> im.mode, w |-> nw, h |-> nh,
          px |-> [p \in Coords(nw, nh) |->
                     im.px[<<((2 * p[1] + 1) * im.w) \div (2 * nw),
                             ((2 * p[2] + 1) * im.h) \div (2 * nh)>>]]]

\* Image.crop((x0, y0, x1, y1)); pixels outside the source are zero.
crop(im, x0, y0, x1, y1) ==
    [mode |-> im.mode, w |-> x1 - x0, h |-> y1 - y0,
     px |-> [p \in Coords(x1 - x0, y1 - y0) |->
                IF <<p[1] + x0, p[2] + y0>> \in DOMAIN im.px
                THEN im.px[<<p[1] + x0, p[2] + y0>>]
                ELSE Transparent]]

\* ---------------------------------------------------------- resize_to_box
\* The outcome of a call and the locals it computed on the way: ret is
\* "return" or "raise"; padded, resized and allocated say that
\* ImageOps.expand, Image.resize and Image.new have run.
BlankFrame ==
    [ret |-> "return", error |-> "", img |-> NoImage, noop |-> FALSE,
     padded |-> FALSE, resized |-> FALSE, allocated |-> FALSE,
     src_w |-> 0, src_h |-> 0, scale |-> <<0, 1>>,
     new_w |-> 0, new_h |-> 0, x0 |-> 0, y0 |-> 0,
     crop_w |-> 0, crop_h |-> 0, cx |-> 0, cy |-> 0]

\* Mutant: only None is treated as absent ("is None" instead of "not").
is_noop_none_only(target_w, target_h) == target_w = None \/ target_h = None

\* Mutant: a negative dimension is treated as absent too.
is_noop_nonpositive(target_w, target_h) ==
    \/ target_w = None \/ target_w[1] <= 0
    \/ target_h = None \/ target_h[1] <= 0

\* if not target_w or not target_h: return img_rgba
is_noop(target_w, target_h) == IsFalsy(target_w) \/ IsFalsy(target_h)

\* Mutant: the padding step is skipped.
pad_never(pad) == FALSE

\* if pad > 0: img_rgba = ImageOps.expand(...)
pad_wanted(pad) == pad > 0

\* Mutant: every mode but "contain" takes the cover branch.
is_cover_unless_contain(mode) == mode # "contain"

\* The branch test of lines 36 and 45.
is_cover(mode) == mode = "cover"

\* The rational a/b is at least c/d (b, d > 0).
RatGeq(a, b, c, d) == a * d >= c * b

\* Mutant: the larger ratio is used in every mode.
scale_of_always_max(mode, tw, th, src_w, src_h) ==
    IF RatGeq(tw, src_w, th, src_h) THEN <<tw, src_w>> ELSE <<th, src_h>>

\* Mutant: the smaller ratio is used in every mode.
scale_of_always_min(mode, tw, th, src_w, src_h) ==
    IF RatGeq(th, src_h, tw, src_w) THEN <<tw, src_w>> ELSE <<th, src_h>>

\* scale as the rational <<num, den>>: max of the two ratios for cover,
\* min otherwise.
scale_of(mode, tw, th, src_w, src_h) ==
    IF is_cover(mode)
    THEN IF RatGeq(tw, src_w, th, src_h) THEN <<tw, src_w>> ELSE <<th, src_h>>
    ELSE IF RatGeq(th, src_h, tw, src_w) THEN <<tw, src_w>> ELSE <<th, src_h>>

\* Mutant: the floor of one pixel is missing.
new_dim_unfloored(src, scale) == py_round(src * scale[1], scale[2])

\* max(1, int(round(src * scale)))
new_dim(src, scale) == Max2(1, py_round(src * scale[1], scale[2]))

\* Mutant: the crop always starts at the left/top edge.
crop_origin_edge(new, target) == 0

\* x0 = (new_w - target_w) // 2 if new_w > target_w else 0
crop_origin(new, target) == IF new > target THEN (new - target) \div 2 ELSE 0

\* Mutant: the offset is rounded up, so the spare pixel goes to the left/top.
centre_offset_ceil(target, size) == (target - size + 1) \div 2

\* cx = (target_w - width) // 2
centre_offset(target, size) == (target - size) \div 2

\* Mutant: the canvas takes the size of the resized image.
canvas_size_of_resized(tw, th, new_w, new_h) == <<new_w, new_h>>

\* The size given to Image.new (line 44).
canvas_size(tw, th, new_w, new_h) == <<tw, th>>

resize_to_box(img_rgba, target_w, target_h, mode, pad, aware) ==
    IF is_noop(target_w, target_h)
    THEN [BlankFrame EXCEPT !.img = img_rgba, !.noop = TRUE]
    ELSE
    LET tw == target_w[1]
        th == target_h[1]
        padded == pad_wanted(pad)
        im == IF padded THEN expand(img_rgba, pad) ELSE img_rgba
        src_w == im.w
        src_h == im.h
        f1 == [BlankFrame EXCEPT !.padded = padded, !.src_w = src_w, !.src_h = src_h]
    IN  IF src_w = 0 \/ src_h = 0
        THEN [f1 EXCEPT !.ret = "raise", !.error = "ZeroDivisionError"]
        ELSE
        LET scale == scale_of(mode, tw, th, src_w, src_h)
            new_w == new_dim(src_w, scale)
            new_h == new_dim(src_h, scale)
            img_resized == resize(im, new_w, new_h)
            size == canvas_size(tw, th, new_w, new_h)
            f2 == [f1 EXCEPT !.scale = scale, !.new_w = new_w, !.new_h = new_h,
                             !.resized = TRUE]
        IN  IF size[1] < 0 \/ size[2] < 0
            THEN [f2 EXCEPT !.ret = "raise", !.error = "ValueError"]
            ELSE
            LET canvas == new_image("RGBA", size[1], size[2], Transparent)
            IN  IF is_cover(mode)
                THEN LET x0 == crop_origin(new_w, tw)
                         y0 == crop_origin(new_h, th)
                         img_cropped == crop(img_resized, x0, y0,
                                             x0 + Min2(tw, new_w), y0 + Min2(th, new_h))
                         cx == centre_offset(tw, img_cropped.w)
                         cy == centre_offset(th, img_cropped.h)
                     IN  [f2 EXCEPT !.allocated = TRUE, !.x0 = x0, !.y0 = y0,
                                    !.crop_w = img_cropped.w, !.crop_h = img_cropped.h,
                                    !.cx = cx, !.cy = cy,
                                    !.img = paste_masked(canvas, img_cropped, cx, cy, aware)]
                ELSE LET cx == centre_offset(tw, new_w)
                         cy == centre_offset(th, new_h)
                     IN  [f2 EXCEPT !.allocated = TRUE,
                                    !.crop_w = new_w, !.crop_h = new_h,
                                    !.cx = cx, !.cy = cy,
                                    !.img = paste_masked(canvas, img_resized, cx, cy, aware)]

\* ------------------------------------------------------------ the inputs
Palette ==
    << <<0, 0, 0, 0>>, <<255, 0, 0, 255>>, <<10, 200, 30, 128>>, <<255, 255, 255, 64>> >>

PatternPixel(seed, p) == Palette[((seed + p[1] + 2 * p[2]) % Len(Palette)) + 1]

SourceRGBA(w, h, seed) ==
    [mode |-> "RGBA", w |-> w, h |-> h,
     px |-> [p \in Coords(w, h) |-> PatternPixel(seed, p)]]

SourceRGB(w, h, seed) ==
    [mode |-> "RGB", w |-> w, h |-> h,
     px |-> [p \in Coords(w, h) |-> SubSeq(PatternPixel(seed, p), 1, 3)]]

SourceImages ==
    {SourceRGBA(w, h, s) : w \in 0 .. MaxSrc, h \in 0 .. MaxSrc, s \in 0 .. MaxSeed}
    \cup {SourceRGB(w, h, s) : w \in 1 .. MaxSrc, h \in 1 .. MaxSrc, s \in 0 .. MaxSeed}

Targets == {None} \cup {Some(n) : n \in (-1) .. MaxTarget}
Modes == {"contain", "cover", "stretch", ""}
Pads == 0 .. MaxPad
Radii == {0, 1, 2}

\* ------------------------------------------------------- the state machine
NoCall ==
    [op |-> "none", in |-> NoImage, target_w |-> None, target_h |-> None,
     mode |-> "", pad |-> 0, radius |-> 0, out |-> BlankFrame]

\* The parts of the state a specification does not use stay idle.
IdleHelpers == img = NoImage /\ last = NoCall /\ prev = NoCall
IdleCalls == heap = <<>> /\ cs = <<>>
IdleCutout == rq = <<>>
IdleProcessAll == pa = <<>>
IdleModels == mm = <<>>
IdleSegment == sg = <<>>

Init ==
    /\ img \in SourceImages
    /\ last = NoCall
    /\ prev = NoCall
    /\ alphaAwarePaste \in BOOLEAN
    /\ IdleCalls /\ IdleCutout /\ IdleProcessAll /\ IdleModels /\ IdleSegment

\* The caller applies feather_alpha to the image it holds (rt.py line 50);
\* the image is a decoded picture, of positive width and height.
FeatherAlpha ==
    /\ last.op = "none"
    /\ img.w > 0 /\ img.h > 0
    /\ \E radius \in Radii :
          LET res == feather_alpha(img, radius)
          IN  /\ last' = [NoCall EXCEPT !.op = "feather_alpha", !.in = img,
                                        !.radius = radius,
                                        !.out = [BlankFrame EXCEPT !.img = res]]
              /\ img' = res
    /\ prev' = last
    /\ UNCHANGED <<alphaAwarePaste, callVars, rq, pa, mm, sg>>

Call(im, tw, th, mode, pad) ==
    [op |-> "resize_to_box", in |-> im, target_w |-> tw, target_h |-> th,
     mode |-> mode, pad |-> pad, radius |-> 0,
     out |-> resize_to_box(im, tw, th, mode, pad, alphaAwarePaste)]

\* The caller applies resize_to_box to the RGBA image it holds (rt.py line 54).
ResizeToBox ==
    /\ last.op \in {"none", "feather_alpha"}
    /\ img.mode = "RGBA"
    /\ \E tw \in Targets, th \in Targets, mode \in Modes, pad \in Pads :
          /\ last' = Call(img, tw, th, mode, pad)
          /\ img' = IF last'.out.ret = "return" THEN last'.out.img ELSE img
    /\ prev' = last
    /\ UNCHANGED <<alphaAwarePaste, callVars, rq, pa, mm, sg>>

\* A second resize_to_box on the first call's output, with the same target
\* size and mode and pad = 0.
ResizeAgain ==
    /\ last.op = "resize_to_box"
    /\ prev.op # "resize_to_box"
    /\ last.out.ret = "return"
    /\ last' = Call(img, last.target_w, last.target_h, last.mode, 0)
    /\ img' = IF last'.out.ret = "return" THEN last'.out.img ELSE img
    /\ prev' = last
    /\ UNCHANGED <<alphaAwarePaste, callVars, rq, pa, mm, sg>>

Next == FeatherAlpha \/ ResizeToBox \/ ResizeAgain

Spec == Init /\ [][Next]_vars

\* ----------------------------------------- two callers, statement by statement
\* The two functions again, one statement per step, over a heap of image
\* objects, so that the steps of two calls interleave.  An object is named
\* by the caller that created it and the local variable it was bound to;
\* a module-level object would carry caller 0.
Callers == {1, 2}

ObjNames == {"arg", "converted", "merged", "padded", "resized", "canvas", "cropped"}
ObjIds == (Callers \cup {0}) \X ObjNames

arg_obj(c) == <<c, "arg">>
converted_obj(c) == <<c, "converted">>
padded_obj(c) == <<c, "padded">>
resized_obj(c) == <<c, "resized">>
cropped_obj(c) == <<c, "cropped">>

\* Mutant: the alpha is written back into the image the caller passed
\* (putalpha in place) and that image is returned.
merged_in_place(c, imgref) == imgref

\* Image.merge (line 20) builds a new image.
merged_obj(c, imgref) == <<c, "merged">>

\* Mutant: one module-level canvas is reused by every call.
canvas_obj_shared(c) == <<0, "canvas">>

\* Image.new (line 44) builds a new canvas in every call.
canvas_obj(c) == <<c, "canvas">>

\* The calls the two callers make.
CallScenarios ==
    { [op |-> "feather_alpha", input |-> SourceRGBA(2, 1, 1), target_w |-> None,
       target_h |-> None, mode |-> "", pad |-> 0, radius |-> 1],
      [op |-> "feather_alpha", input |-> SourceRGB(1, 2, 1), target_w |-> None,
       target_h |-> None, mode |-> "", pad |-> 0, radius |-> 0],
      [op |-> "resize_to_box", input |-> SourceRGBA(2, 1, 2), target_w |-> Some(3),
       target_h |-> Some(3), mode |-> "contain", pad |-> 1, radius |-> 0],
      [op |-> "resize_to_box", input |-> SourceRGBA(1, 2, 1), target_w |-> Some(2),
       target_h |-> Some(2), mode |-> "cover", pad |-> 0, radius |-> 0],
      [op |-> "resize_to_box", input |-> SourceRGBA(2, 2, 0), target_w |-> None,
       target_h |-> Some(2), mode |-> "contain", pad |-> 1, radius |-> 0],
      [op |-> "resize_to_box", input |-> SourceRGBA(1, 1, 2), target_w |-> Some(-1),
       target_h |-> Some(2), mode |-> "cover", pad |-> 1, radius |-> 0],
      [op |-> "resize_to_box", input |-> SourceRGBA(0, 2, 0), target_w |-> Some(2),
       target_h |-> Some(2), mode |-> "contain", pad |-> 0, radius |-> 0] }

\* The frame of a call at its first statement.
StartFrame(c, call) ==
    [call |-> call,
     pc |-> IF call.op = "feather_alpha" THEN "f13" ELSE "r27",
     imgref |-> arg_obj(c), pasteref |-> arg_obj(c),
     scale |-> <<0, 1>>, new_w |-> 0, new_h |-> 0,
     bands |-> <<>>, ret |-> "", error |-> "", result |-> arg_obj(c),
     mixed |-> FALSE]

InitCalls ==
    /\ alphaAwarePaste \in BOOLEAN
    /\ \E c1 \in CallScenarios, c2 \in CallScenarios :
          /\ cs = [c \in Callers |-> StartFrame(c, IF c = 1 THEN c1 ELSE c2)]
          /\ heap = [o \in ObjIds |->
                        IF o = arg_obj(1) THEN c1.input
                        ELSE IF o = arg_obj(2) THEN c2.input
                        ELSE NoImage]
    /\ IdleHelpers /\ IdleCutout /\ IdleProcessAll /\ IdleModels /\ IdleSegment

Running(c) == cs[c].pc # "done" /\ cs[c].pc \notin {"f13", "r27"}

\* The frame after a step: f with the other caller's being mid-call noted.
Stepped(c, f) ==
    [cs EXCEPT ![c] = [f EXCEPT !.mixed = @ \/ \E o \in Callers \ {c} : Running(o)]]

Return(f, ref) == [f EXCEPT !.pc = "done", !.ret = "return", !.result = ref]
Raise(f, err) == [f EXCEPT !.pc = "done", !.ret = "raise", !.error = err]

\* feather_alpha, lines 13-14
F13(c) ==
    LET f == cs[c] IN
    /\ f.pc = "f13"
    /\ IF heap[f.imgref].mode # "RGBA"
       THEN /\ heap' = [heap EXCEPT ![converted_obj(c)] = convert_rgba(heap[f.imgref])]
            /\ cs' = Stepped(c, [f EXCEPT !.pc = "f15", !.imgref = converted_obj(c)])
       ELSE /\ heap' = heap
            /\ cs' = Stepped(c, [f EXCEPT !.pc = "f15"])

\* lines 15-16: the four bands, copied out of the image
F15(c) ==
    LET f == cs[c]
        im == heap[f.imgref]
    IN  /\ f.pc = "f15"
        /\ cs' = Stepped(c, [f EXCEPT !.pc = "f17",
                    !.bands = <<band(im, 1), band(im, 2), band(im, 3), band(im, 4)>>])
        /\ heap' = heap

\* lines 17-18
F17(c) ==
    LET f == cs[c]
        im == heap[f.imgref]
    IN  /\ f.pc = "f17"
        /\ cs' = Stepped(c, [f EXCEPT !.pc = "f19",
                    !.bands[4] = IF blur_wanted(f.call.radius)
                                 THEN GaussianBlur(@, im.w, im.h, f.call.radius)
                                 ELSE @])
        /\ heap' = heap

\* lines 19-20
F19(c) ==
    LET f == cs[c]
        im == heap[f.imgref]
        out == merged_obj(c, f.imgref)
    IN  /\ f.pc = "f19"
        /\ heap' = [heap EXCEPT ![out] =
                       merge_rgba(im.w, im.h, f.bands[1], f.bands[2], f.bands[3], f.bands[4])]
        /\ cs' = Stepped(c, Return(f, out))

\* resize_to_box, lines 27-28
R27(c) ==
    LET f == cs[c] IN
    /\ f.pc = "r27"
    /\ cs' = Stepped(c, IF is_noop(f.call.target_w, f.call.target_h)
                        THEN Return(f, f.imgref)
                        ELSE [f EXCEPT !.pc = "r31"])
    /\ heap' = heap

\* lines 31-32
R31(c) ==
    LET f == cs[c] IN
    /\ f.pc = "r31"
    /\ IF pad_wanted(f.call.pad)
       THEN /\ heap' = [heap EXCEPT ![padded_obj(c)] = expand(heap[f.imgref], f.call.pad)]
            /\ cs' = Stepped(c, [f EXCEPT !.pc = "r35", !.imgref = padded_obj(c)])
       ELSE /\ heap' = heap
            /\ cs' = Stepped(c, [f EXCEPT !.pc = "r35"])

\* lines 35-41
R35(c) ==
    LET f == cs[c]
        im == heap[f.imgref]
        scale == scale_of(f.call.mode, f.call.target_w[1], f.call.target_h[1], im.w, im.h)
    IN  /\ f.pc = "r35"
        /\ cs' = Stepped(c, IF im.w = 0 \/ im.h = 0
                            THEN Raise(f, "ZeroDivisionError")
                            ELSE [f EXCEPT !.pc = "r42", !.scale = scale,
                                           !.new_w = new_dim(im.w, scale),
                                           !.new_h = new_dim(im.h, scale)])
        /\ heap' = heap

\* line 42
R42(c) ==
    LET f == cs[c] IN
    /\ f.pc = "r42"
    /\ heap' = [heap EXCEPT ![resized_obj(c)] = resize(heap[f.imgref], f.new_w, f.new_h)]
    /\ cs' = Stepped(c, [f EXCEPT !.pc = "r44", !.pasteref = resized_obj(c)])

\* line 44
R44(c) ==
    LET f == cs[c]
        size == canvas_size(f.call.target_w[1], f.call.target_h[1], f.new_w, f.new_h)
    IN  /\ f.pc = "r44"
        /\ IF size[1] < 0 \/ size[2] < 0
           THEN /\ cs' = Stepped(c, Raise(f, "ValueError"))
                /\ heap' = heap
           ELSE /\ heap' = [heap EXCEPT ![canvas_obj(c)] =
                               new_image("RGBA", size[1], size[2], Transparent)]
                /\ cs' = Stepped(c, [f EXCEPT !.pc = IF is_cover(f.call.mode)
                                                     THEN "r46" ELSE "r53"])

\* lines 46-48
R46(c) ==
    LET f == cs[c]
        tw == f.call.target_w[1]
        th == f.call.target_h[1]
        x0 == crop_origin(f.new_w, tw)
        y0 == crop_origin(f.new_h, th)
    IN  /\ f.pc = "r46"
        /\ heap' = [heap EXCEPT ![cropped_obj(c)] =
                       crop(heap[f.pasteref], x0, y0,
                            x0 + Min2(tw, f.new_w), y0 + Min2(th, f.new_h))]
        /\ cs' = Stepped(c, [f EXCEPT !.pc = "r49", !.pasteref = cropped_obj(c)])

\* lines 49-51 and 57
R49(c) ==
    LET f == cs[c]
        im == heap[f.pasteref]
        cx == centre_offset(f.call.target_w[1], im.w)
        cy == centre_offset(f.call.target_h[1], im.h)
    IN  /\ f.pc = "r49"
        /\ heap' = [heap EXCEPT ![canvas_obj(c)] =
                       paste_masked(@, im, cx, cy, alphaAwarePaste)]
        /\ cs' = Stepped(c, Return(f, canvas_obj(c)))

\* lines 53-55 and 57
R53(c) ==
    LET f == cs[c]
        im == heap[f.pasteref]
        cx == centre_offset(f.call.target_w[1], f.new_w)
        cy == centre_offset(f.call.target_h[1], f.new_h)
    IN  /\ f.pc = "r53"
        /\ heap' = [heap EXCEPT ![canvas_obj(c)] =
                       paste_masked(@, im, cx, cy, alphaAwarePaste)]
        /\ cs' = Stepped(c, Return(f, canvas_obj(c)))

FeatherStep(c) == F13(c) \/ F15(c) \/ F17(c) \/ F19(c)
ResizeStep(c) ==
    R27(c) \/ R31(c) \/ R35(c) \/ R42(c) \/ R44(c) \/ R46(c) \/ R49(c) \/ R53(c)

NextCalls ==
    /\ \E c \in Callers : FeatherStep(c) \/ ResizeStep(c)
    /\ UNCHANGED <<alphaAwarePaste, helperVars, rq, pa, mm, sg>>

SpecCalls == InitCalls /\ [][NextCalls]_vars

\* ------------------------------------------------------ the /cutout request
\* The handler cutout (routes/rt.py), one statement group per step.  rq.log
\* lists the steps that have completed, in order; resize_in and
\* feather_out record what resize_to_box was given and what feather_alpha
\* returned.

\* Image.convert("RGB"): the alpha band is dropped.
convert_rgb(im) ==
    [mode |-> "RGB", w |-> im.w, h |-> im.h,
     px |-> [p \in DOMAIN im.px |-> SubSeq(im.px[p], 1, 3)]]

\* rembg's remove(...).convert("RGBA"): the colours of src with a matte as
\* alpha.  The matte is the model's output, one of a few patterns here.
MatteValues == <<0, 255, 128>>
remove(src, matte) ==
    [mode |-> "RGBA", w |-> src.w, h |-> src.h,
     px |-> [p \in DOMAIN src.px |->
                Append(src.px[p],
                       MatteValues[((matte + p[1] + p[2]) % Len(MatteValues)) + 1])]]

\* out_img.save(buf, format = "PNG"): lossless, mode and pixels kept.
png_encode(im) == [format |-> "PNG", mode |-> im.mode, w |-> im.w, h |-> im.h, px |-> im.px]

NoBody == [format |-> "", mode |-> "", w |-> 0, h |-> 0, px |-> <<>>]

\* radius = max(1, int(round(min(cut.size) / 1000 * feather)))
feather_radius(cut, feather) == Max2(1, py_round(Min2(cut.w, cut.h) * feather, 1000))

\* if feather and feather > 0
feather_wanted(feather) == feather # 0 /\ feather > 0

\* Mutant: the upload is decoded only after the background removal.
StepOrderDecodeLate == <<"remove", "decode", "feather", "resize", "encode">>

\* Mutant: the canvas fit comes before the feathering.
StepOrderResizeFirst == <<"decode", "remove", "resize", "feather", "encode">>

\* The order of the handler's statements.
StepOrder == <<"decode", "remove", "feather", "resize", "encode">>

StepAt(i) == IF i <= Len(StepOrder) THEN StepOrder[i] ELSE "respond"

\* An upload is the bytes of a picture, or bytes no decoder accepts.
Garbage == [mode |-> "garbage", w |-> 0, h |-> 0, px |-> <<>>]
Uploads == {SourceRGB(2, 1, 0), SourceRGBA(1, 2, 1), SourceRGB(2, 2, 2), Garbage}
CutoutWidths == {None, Some(-1), Some(0), Some(3)}
CutoutHeights == {None, Some(2)}
CutoutModes == {"contain", "cover"}
CutoutFeathers == {0, 2}
CutoutPads == {0, 1}
Mattes == {0, 1}

InitCutout ==
    /\ alphaAwarePaste \in BOOLEAN
    /\ \E file \in Uploads, width \in CutoutWidths, height \in CutoutHeights,
          mode \in CutoutModes, alpha_matting \in BOOLEAN,
          feather \in CutoutFeathers, pad \in CutoutPads :
          rq = [file |-> file, width |-> width, height |-> height, mode |-> mode,
                alpha_matting |-> alpha_matting, feather |-> feather, pad |-> pad,
                at |-> 1, log |-> <<>>,
                src |-> NoImage, cut |-> NoImage, out_img |-> NoImage,
                resize_in |-> NoImage, feather_out |-> NoImage,
                status |-> 0, detail |-> "", media_type |-> "", body |-> NoBody]
    /\ IdleHelpers /\ IdleCalls /\ IdleProcessAll /\ IdleModels /\ IdleSegment

Advance(r, step) == [r EXCEPT !.at = @ + 1, !.log = Append(@, step)]
Fail(r, status, detail) == [r EXCEPT !.at = 0, !.status = status, !.detail = detail]

\* lines 30-34
Decode ==
    /\ rq.at > 0 /\ StepAt(rq.at) = "decode"
    /\ rq' = IF rq.file = Garbage
             THEN Fail(rq, 400, "Invalid image file")
             ELSE [Advance(rq, "decode") EXCEPT !.src = convert_rgb(rq.file)]

\* lines 38-44; the background-removal model may fail, which nothing catches
RemoveBackground ==
    /\ rq.at > 0 /\ StepAt(rq.at) = "remove"
    /\ \/ \E matte \in Mattes :
             rq' = [Advance(rq, "remove") EXCEPT !.cut = remove(rq.src, matte)]
       \/ rq' = Fail(rq, 500, "Internal Server Error")

\* lines 48-50
Feather ==
    /\ rq.at > 0 /\ StepAt(rq.at) = "feather"
    /\ rq' = IF feather_wanted(rq.feather)
             THEN LET res == feather_alpha(rq.cut, feather_radius(rq.cut, rq.feather))
                  IN  [Advance(rq, "feather") EXCEPT !.cut = res, !.feather_out = res]
             ELSE [rq EXCEPT !.at = @ + 1]

\* line 54; an exception of resize_to_box is not caught
Resize ==
    /\ rq.at > 0 /\ StepAt(rq.at) = "resize"
    /\ LET f == resize_to_box(rq.cut, rq.width, rq.height, rq.mode, rq.pad,
                              alphaAwarePaste)
       IN  rq' = IF f.ret = "raise"
                 THEN Fail([rq EXCEPT !.resize_in = rq.cut], 500, "Internal Server Error")
                 ELSE [Advance(rq, "resize") EXCEPT !.out_img = f.img,
                                                    !.resize_in = rq.cut]

\* lines 58-60
Encode ==
    /\ rq.at > 0 /\ StepAt(rq.at) = "encode"
    /\ rq' = [Advance(rq, "encode") EXCEPT !.body = png_encode(rq.out_img)]

\* lines 63-65
Respond ==
    /\ rq.at > 0 /\ StepAt(rq.at) = "respond"
    /\ rq' = [rq EXCEPT !.at = 0, !.status = 200, !.media_type = "image/png"]

NextCutout ==
    /\ Decode \/ RemoveBackground \/ Feather \/ Resize \/ Encode \/ Respond
    /\ UNCHANGED <<alphaAwarePaste, helperVars, callVars, pa, mm, sg>>

SpecCutout == InitCutout /\ [][NextCutout]_vars

\* ---------------------------------------------- the /ai/process-all request
\* The handler process_all (routes/ai_routes.py), one step per numbered
\* block of its body.  The picture is followed by mode and size only; what
\* the models paint is outside the model.  pa.log lists the optional steps
\* that have run, pa.calls the EnhancementService functions invoked, and
\* pa.failed the step whose exception ended the request.

Shape(mode, w, h) == [mode |-> mode, w |-> w, h |-> h]
NoShape == Shape("", 0, 0)

\* image.save(buf, format = "PNG"): mode and size kept.
png_of(im) == [format |-> "PNG", mode |-> im.mode, w |-> im.w, h |-> im.h]
NoPng == [format |-> "", mode |-> "", w |-> 0, h |-> 0]

\* Mutant: upscaling moved in front of the other steps.
PipelineUpscaleFirst ==
    <<"decode", "upscale", "remove_bg", "denoise", "auto_enhance", "enhance_face", "encode">>

\* The order of the blocks in the handler's body.
Pipeline ==
    <<"decode", "remove_bg", "denoise", "auto_enhance", "enhance_face", "upscale", "encode">>

BlockAt(i) == IF i <= Len(Pipeline) THEN Pipeline[i] ELSE "respond"

\* The form field that switches a block on.
Flag(r, step) ==
    CASE step = "remove_bg" -> r.remove_bg
      [] step = "denoise" -> r.denoise
      [] step = "auto_enhance" -> r.auto_enhance
      [] step = "enhance_face" -> r.enhance_face
      [] step = "upscale" -> r.upscale

\* EnhancementService.upscale_image: both paths multiply the size by scale.
upscale_image(im, scale) == Shape(im.mode, im.w * scale, im.h * scale)

\* EnhancementService.enhance_face on the white-backed RGB copy, then
\* image.convert("RGBA"); with upscale = 1 neither path changes the size.
enhance_face(im, upscale) ==
    Shape("RGBA", im.w * Max2(upscale, 1), im.h * Max2(upscale, 1))

\* The service functions one call of a block invokes: without GFPGAN,
\* enhance_face falls back to auto_enhance.
ServiceCalls(step, gfpgan_available) ==
    CASE step = "remove_bg" -> <<>>
      [] step = "denoise" -> <<"denoise_image">>
      [] step = "auto_enhance" -> <<"auto_enhance">>
      [] step = "enhance_face" ->
            IF gfpgan_available THEN <<"enhance_face">>
            ELSE <<"enhance_face", "auto_enhance">>
      [] step = "upscale" -> <<"upscale_image">>

\* The picture after a block that ran.
Applied(step, im, factor) ==
    CASE step = "remove_bg" -> Shape("RGBA", im.w, im.h)
      [] step = "denoise" -> im
      [] step = "auto_enhance" -> im
      [] step = "enhance_face" -> enhance_face(im, 1)
      [] step = "upscale" -> upscale_image(im, factor)

\* Mutant: the exception is swallowed and the next block runs.
on_exception_continue(r, step) == [r EXCEPT !.at = @ + 1, !.failed = step]

\* except Exception as e: raise HTTPException(status_code = 500, ...)
on_exception(r, step) == [r EXCEPT !.at = 0, !.failed = step, !.status = 500]

FileShapes == {Shape("RGB", 2, 1), Shape("RGBA", 1, 2), Shape("garbage", 0, 0)}
UpscaleFactors == {2, 4}

InitProcessAll ==
    /\ alphaAwarePaste = FALSE
    /\ \E file \in FileShapes, remove_bg \in BOOLEAN, upscale \in BOOLEAN,
          enhance \in BOOLEAN, denoise \in BOOLEAN, auto \in BOOLEAN,
          factor \in UpscaleFactors, gfpgan \in BOOLEAN :
          pa = [file |-> file, remove_bg |-> remove_bg, upscale |-> upscale,
                enhance_face |-> enhance, denoise |-> denoise, auto_enhance |-> auto,
                upscale_factor |-> factor, gfpgan_available |-> gfpgan,
                at |-> 1, log |-> <<>>, calls |-> <<>>, failed |-> "",
                image |-> NoShape, status |-> 0, body |-> NoPng]
    /\ IdleHelpers /\ IdleCalls /\ IdleCutout /\ IdleModels /\ IdleSegment

\* lines 358-359
PaDecode ==
    /\ pa.at > 0 /\ BlockAt(pa.at) = "decode"
    /\ pa' = IF pa.file.mode = "garbage"
             THEN on_exception(pa, "decode")
             ELSE [pa EXCEPT !.at = @ + 1, !.image = Shape("RGB", pa.file.w, pa.file.h)]

\* One optional block: skipped without its flag; with it, the call returns
\* or raises.
PaBlock(step) ==
    /\ pa.at > 0 /\ BlockAt(pa.at) = step
    /\ IF ~Flag(pa, step)
       THEN pa' = [pa EXCEPT !.at = @ + 1,
                             !.image = IF step = "remove_bg"
                                       THEN Shape("RGBA", @.w, @.h) ELSE @]
       ELSE \/ pa' = [pa EXCEPT !.at = @ + 1,
                                !.log = Append(@, step),
                                !.calls = @ \o ServiceCalls(step, pa.gfpgan_available),
                                !.image = Applied(step, @, pa.upscale_factor)]
            \/ pa' = [on_exception(pa, step) EXCEPT
                         !.calls = @ \o ServiceCalls(step, pa.gfpgan_available)]

\* lines 362-367
PaRemoveBg == PaBlock("remove_bg")
\* lines 370-372
PaDenoise == PaBlock("denoise")
\* lines 375-377
PaAutoEnhance == PaBlock("auto_enhance")
\* lines 380-390
PaEnhanceFace == PaBlock("enhance_face")
\* lines 393-395
PaUpscale == PaBlock("upscale")

\* lines 398-400
PaEncode ==
    /\ pa.at > 0 /\ BlockAt(pa.at) = "encode"
    /\ pa' = [pa EXCEPT !.at = @ + 1, !.body = png_of(pa.image)]

\* line 402
PaRespond ==
    /\ pa.at > 0 /\ BlockAt(pa.at) = "respond"
    /\ pa' = [pa EXCEPT !.at = 0, !.status = 200]

NextProcessAll ==
    /\ \/ PaDecode \/ PaRemoveBg \/ PaDenoise \/ PaAutoEnhance
       \/ PaEnhanceFace \/ PaUpscale \/ PaEncode \/ PaRespond
    /\ UNCHANGED <<alphaAwarePaste, helperVars, callVars, rq, mm, sg>>

SpecProcessAll == InitProcessAll /\ [][NextProcessAll]_vars

\* --------------------------------------------------------- the ModelManager
\* The singleton of services/model_manager.py over one process lifetime:
\* the _models dictionary, the weight files of the cache directory and the
\* settings that name them.  A handle is the model's name with the ordinal
\* of the load that built it.  attempts, loaded and removed count, per
\* model, the entries into the load branch, the loads that stored a handle
\* and the removals of its entry; held is the handle the last successful
\* get_* returned since the last unload of that model; last describes the
\* most recent call.

MaxCalls == 4

ModelNames == {"sam", "yolo", "esrgan", "gfpgan"}

\* The models whose weights the manager itself fetches into the cache dir.
FileNames == {"sam", "esrgan", "gfpgan"}

\* self._models[name] = handle
put(models, name, handle) ==
    [n \in DOMAIN models \cup {name} |-> IF n = name THEN handle ELSE models[n]]

\* del self._models[name]
del(models, name) == [n \in DOMAIN models \ {name} |-> models[n]]

\* Mutant: the dictionary is never consulted.
cached_never(models, name) == FALSE

\* the negation of: if "<name>" not in self._models
cached(models, name) == name \in DOMAIN models

\* Mutant: no weight file is ever found.
exists_never(files, name) == FALSE

\* os.path.exists on the weight file: a partly written file exists too.
exists(files, name) == files[name] # "absent"

\* The settings name an entry of the model_urls table.
known(cfg, name) ==
    CASE name = "esrgan" -> cfg.esrgan_known
      [] name = "gfpgan" -> cfg.gfpgan_known
      [] OTHER -> TRUE

\* _get_sam_checkpoint / _get_esrgan_model_path / _get_gfpgan_model_path:
\* "path" when a file is there (or, for SAM, the configured checkpoint),
\* "download" when it must be fetched, "unknown" for the ValueError.
resolve(m, name) ==
    IF name \notin FileNames THEN "path"
    ELSE IF name = "sam" /\ m.cfg.sam_checkpoint THEN "path"
    ELSE IF exists(m.files, name) THEN "path"
    ELSE IF known(m.cfg, name) THEN "download"
    ELSE "unknown"

\* The weights the constructor would read are whole.
weights_ok(m, name) ==
    IF name \notin FileNames THEN TRUE
    ELSE IF name = "sam" /\ m.cfg.sam_checkpoint THEN TRUE
    ELSE m.files[name] = "complete"

Outcomes ==
    {"ok", "import_error", "value_error", "download_error", "download_partial",
     "construct_error"}

\* What a call gives back: a handle, or one of these.
Raised == <<"raise", 0>>
NoReturn == <<"None", 0>>

\* The exception of a failed load.
ErrorOf(outcome) ==
    CASE outcome = "import_error" -> "ImportError"
      [] outcome = "value_error" -> "ValueError"
      [] outcome \in {"download_error", "download_partial"} -> "URLError"
      [] outcome = "construct_error" -> "RuntimeError"
      [] OTHER -> ""

\* Which outcomes the load branch can have in this state.
Feasible(m, name, outcome) ==
    CASE outcome = "import_error" -> TRUE
      [] outcome = "value_error" -> resolve(m, name) = "unknown"
      [] outcome \in {"download_error", "download_partial"} -> resolve(m, name) = "download"
      [] outcome = "construct_error" -> resolve(m, name) # "unknown"
      [] outcome = "ok" ->
            /\ resolve(m, name) # "unknown"
            /\ resolve(m, name) = "path" => weights_ok(m, name)

Called(m, op, name, ret, loaded, downloaded) ==
    [m EXCEPT !.calls = @ + 1,
              !.last = [op |-> op, name |-> name, ret |-> ret,
                        loaded |-> loaded, downloaded |-> downloaded, error |-> ""]]

\* Mutant: a load that raises drops the other models' entries.
load_failure_clears(m, name, outcome) ==
    IF outcome = "ok" /\ resolve(m, name) # "unknown"
    THEN Called([m EXCEPT !.attempts[name] = @ + 1,
                          !._models = put(@, name, <<name, m.loaded[name] + 1>>),
                          !.loaded[name] = @ + 1,
                          !.held[name] = Some(<<name, m.loaded[name] + 1>>)],
                "get", name, <<name, m.loaded[name] + 1>>, TRUE, FALSE)
    ELSE [Called([m EXCEPT !.attempts[name] = @ + 1, !._models = <<>>],
                 "get", name, Raised, TRUE, FALSE) EXCEPT
             !.last.error = ErrorOf(outcome)]

\* The load branch of a get_*: import, weight path (with download), model
\* construction, store.
load(m, name, outcome) ==
    LET dl == resolve(m, name) = "download" /\ outcome # "import_error"
        files == IF ~dl THEN m.files
                 ELSE [m.files EXCEPT ![name] =
                          IF outcome = "download_error" THEN "absent"
                          ELSE IF outcome = "download_partial" THEN "partial"
                          ELSE "complete"]
        tried == [m EXCEPT !.attempts[name] = @ + 1, !.files = files]
        handle == <<name, m.loaded[name] + 1>>
    IN  IF outcome = "ok" /\ resolve(m, name) # "unknown"
        THEN Called([tried EXCEPT !._models = put(@, name, handle),
                                  !.loaded[name] = @ + 1,
                                  !.held[name] = Some(handle)],
                    "get", name, handle, TRUE, dl)
        ELSE [Called(tried, "get", name, Raised, TRUE, dl) EXCEPT
                 !.last.error = ErrorOf(outcome)]

\* get_sam_predictor / get_yolo_model / get_esrgan_upsampler /
\* get_gfpgan_enhancer
get_model(m, name, outcome) ==
    IF cached(m._models, name)
    THEN Called([m EXCEPT !.held[name] = Some(m._models[name])],
                "get", name, m._models[name], FALSE, FALSE)
    ELSE load(m, name, outcome)

\* Mutant: unloading one model empties the dictionary.
unload_model_all(m, model_name) ==
    Called([m EXCEPT !._models = <<>>,
                     !.removed = [n \in ModelNames |->
                                     IF n \in DOMAIN m._models THEN @[n] + 1 ELSE @[n]],
                     !.held = [n \in ModelNames |-> None]],
           "unload_model", model_name, NoReturn, FALSE, FALSE)

unload_model(m, model_name) ==
    LET hit == model_name \in DOMAIN m._models
        forgot == IF model_name \in ModelNames
                  THEN [m EXCEPT !.held[model_name] = None] ELSE m
    IN  Called(IF hit
               THEN [forgot EXCEPT !._models = del(@, model_name),
                                   !.removed[model_name] = @ + 1]
               ELSE forgot,
               "unload_model", model_name, NoReturn, FALSE, FALSE)

unload_all(m) ==
    Called([m EXCEPT !._models = <<>>,
                     !.removed = [n \in ModelNames |->
                                     IF n \in DOMAIN m._models THEN @[n] + 1 ELSE @[n]],
                     !.held = [n \in ModelNames |-> None]],
           "unload_all", "", NoReturn, FALSE, FALSE)

InitModels ==
    /\ alphaAwarePaste = FALSE
    /\ \E files \in [FileNames -> {"absent", "complete"}],
          esrgan_known \in BOOLEAN, gfpgan_known \in BOOLEAN, sam_checkpoint \in BOOLEAN :
          mm = [_models |-> <<>>,
                files |-> files,
                cfg |-> [esrgan_known |-> esrgan_known, gfpgan_known |-> gfpgan_known,
                         sam_checkpoint |-> sam_checkpoint],
                attempts |-> [n \in ModelNames |-> 0],
                loaded |-> [n \in ModelNames |-> 0],
                removed |-> [n \in ModelNames |-> 0],
                held |-> [n \in ModelNames |-> None],
                calls |-> 0,
                last |-> [op |-> "", name |-> "", ret |-> NoReturn,
                          loaded |-> FALSE, downloaded |-> FALSE, error |-> ""]]
    /\ IdleHelpers /\ IdleCalls /\ IdleCutout /\ IdleProcessAll /\ IdleSegment

Get(name) ==
    /\ mm.calls < MaxCalls
    /\ \E outcome \in Outcomes :
          /\ cached(mm._models, name) => outcome = "ok"
          /\ ~cached(mm._models, name) => Feasible(mm, name, outcome)
          /\ mm' = get_model(mm, name, outcome)

GetSamPredictor == Get("sam")
GetYoloModel == Get("yolo")
GetEsrganUpsampler == Get("esrgan")
GetGfpganEnhancer == Get("gfpgan")

UnloadModel ==
    /\ mm.calls < MaxCalls
    /\ \E model_name \in ModelNames \cup {"other"} : mm' = unload_model(mm, model_name)

UnloadAll ==
    /\ mm.calls < MaxCalls
    /\ mm' = unload_all(mm)

NextModels ==
    /\ \/ GetSamPredictor \/ GetYoloModel \/ GetEsrganUpsampler \/ GetGfpganEnhancer
       \/ UnloadModel \/ UnloadAll
    /\ UNCHANGED <<alphaAwarePaste, helperVars, callVars, rq, pa, sg>>

SpecModels == InitModels /\ [][NextModels]_vars

\* ------------------------------------------------ constructing ModelManager
\* ModelManager() over one process lifetime (model_manager.py 14-35, 255):
\* the class attributes _instance and _models, the instance attributes,
\* and the cache directory.  allocs counts the objects __new__ created,
\* init_entries and init_done the times the body of __init__ behind its
\* guard was entered and was finished; last describes the latest
\* construction.

MaxConstructions == 3

Unset == "unset"

\* ai_settings.models_cache_dir (config/ai_config.py 13)
CacheDir == "./models_cache"

\* Mutant: every construction creates a new object.
new_always(m) ==
    [m EXCEPT !._instance = Some(m.allocs + 1), !._initialized = FALSE,
              !.allocs = @ + 1]

\* ModelManager.__new__
new(m) ==
    IF m._instance = None
    THEN [m EXCEPT !._instance = Some(m.allocs + 1), !._initialized = FALSE,
                   !.allocs = @ + 1]
    ELSE m

\* Mutant: __init__ has no guard.
init_guard_none(m) == FALSE

\* if self._initialized: return
init_guard(m) == m._initialized

\* ModelManager.__init__; makedirs_ok says whether os.makedirs succeeds.
init(m, makedirs_ok) ==
    IF init_guard(m)
    THEN [m EXCEPT !.last.ret = m._instance, !.last.ran_init = FALSE,
                   !.last.raised = FALSE]
    ELSE LET set == [m EXCEPT !.device = m.settings_device,
                              !.models_cache_dir = CacheDir,
                              !.init_entries = @ + 1,
                              !.last.ran_init = TRUE, !.last.raised = FALSE]
         IN  IF makedirs_ok \/ m.dir_exists
             THEN [set EXCEPT !.dir_exists = TRUE, !._initialized = TRUE,
                              !.init_done = @ + 1, !.last.ret = m._instance]
             ELSE [set EXCEPT !.last.ret = None, !.last.raised = TRUE]

\* ModelManager(): __new__, then __init__ on what it returned.
construct(m, makedirs_ok) ==
    init([new(m) EXCEPT !.n = @ + 1, !.last.was_initialized = m._initialized],
         makedirs_ok)

InitSingleton ==
    /\ alphaAwarePaste = FALSE
    /\ \E device \in {"cpu", "cuda"}, dir_exists \in BOOLEAN :
          mm = [_instance |-> None, _initialized |-> FALSE, _models |-> {},
                settings_device |-> device,
                device |-> Unset, models_cache_dir |-> Unset,
                dir_exists |-> dir_exists,
                allocs |-> 0, init_entries |-> 0, init_done |-> 0, n |-> 0,
                last |-> [ret |-> None, raised |-> FALSE, ran_init |-> FALSE,
                          was_initialized |-> FALSE]]
    /\ IdleHelpers /\ IdleCalls /\ IdleCutout /\ IdleProcessAll /\ IdleSegment

\* model_manager = ModelManager(), and any later ModelManager()
Construct ==
    /\ mm.n < MaxConstructions
    /\ \E makedirs_ok \in BOOLEAN : mm' = construct(mm, makedirs_ok)

\* The get_* and unload operations on the instance, seen only through the
\* keys they leave in _models.
UseModels ==
    /\ mm._initialized
    /\ \E keys \in SUBSET ModelNames :
          /\ keys # mm._models
          /\ mm' = [mm EXCEPT !._models = keys]

\* Something outside the process removes the cache directory.
RemoveCacheDir ==
    /\ mm.dir_exists
    /\ mm' = [mm EXCEPT !.dir_exists = FALSE]

NextSingleton ==
    /\ Construct \/ UseModels \/ RemoveCacheDir
    /\ UNCHANGED <<alphaAwarePaste, helperVars, callVars, rq, pa, sg>>

SpecSingleton == InitSingleton /\ [][NextSingleton]_vars

\* ------------------------------------------------ two callers of one get_*
\* Two callers in the same get_* of the ModelManager, statement by statement
\* (get_yolo_model, lines 62-78; the other three have the same shape).  The
\* method takes no lock.  The route handlers are coroutines of one event
\* loop and do not await between entering get_* and its return
\* (threads = FALSE); callers on separate threads can be switched between
\* any two statements (threads = TRUE).  loads counts the constructions of
\* each model.

GetCallers == {1, 2}

IdleCaller == [name |-> "", pc |-> "idle", model |-> None, ret |-> None]

InitConcurrentGet ==
    /\ alphaAwarePaste = FALSE
    /\ \E threads \in BOOLEAN :
          mm = [_models |-> <<>>,
                threads |-> threads,
                loads |-> [n \in ModelNames |-> 0],
                callers |-> [c \in GetCallers |-> IdleCaller]]
    /\ IdleHelpers /\ IdleCalls /\ IdleCutout /\ IdleProcessAll /\ IdleSegment

InCall(c) == mm.callers[c].pc \in {"check", "load", "store", "return"}

\* The scheduler lets caller c run its next statement.
MayRun(c) == mm.threads \/ \A o \in GetCallers \ {c} : ~InCall(o)

\* The caller enters get_*.
GetEnter(c) ==
    /\ mm.callers[c].pc = "idle" /\ MayRun(c)
    /\ \E name \in ModelNames :
          mm' = [mm EXCEPT !.callers[c] = [@ EXCEPT !.name = name, !.pc = "check"]]

\* line 62: if "yolo" not in self._models
GetCheck(c) ==
    /\ mm.callers[c].pc = "check" /\ MayRun(c)
    /\ mm' = [mm EXCEPT !.callers[c].pc =
                 IF cached(mm._models, mm.callers[c].name) THEN "return" ELSE "load"]

\* lines 64-70: the model is built, or the attempt raises (lines 74-76)
GetLoad(c) ==
    /\ mm.callers[c].pc = "load" /\ MayRun(c)
    /\ LET name == mm.callers[c].name
       IN  \/ mm' = [mm EXCEPT !.loads[name] = @ + 1,
                               !.callers[c].model = Some(<<name, mm.loads[name] + 1>>),
                               !.callers[c].pc = "store"]
           \/ mm' = [mm EXCEPT !.callers[c].pc = "raised"]

\* line 72: self._models["yolo"] = model
GetStore(c) ==
    /\ mm.callers[c].pc = "store" /\ MayRun(c)
    /\ mm' = [mm EXCEPT !._models = put(@, mm.callers[c].name, mm.callers[c].model[1]),
                        !.callers[c].pc = "return"]

\* line 78: return self._models["yolo"]
GetReturn(c) ==
    /\ mm.callers[c].pc = "return" /\ MayRun(c)
    /\ mm' = [mm EXCEPT !.callers[c].ret = Some(mm._models[mm.callers[c].name]),
                        !.callers[c].pc = "done"]

NextConcurrentGet ==
    /\ \E c \in GetCallers :
          GetEnter(c) \/ GetCheck(c) \/ GetLoad(c) \/ GetStore(c) \/ GetReturn(c)
    /\ UNCHANGED <<alphaAwarePaste, helperVars, callVars, rq, pa, sg>>

SpecConcurrentGet == InitConcurrentGet /\ [][NextConcurrentGet]_vars

\* -------------------------------------------------------- the segment routes
\* The handlers segment_object and segment_by_points (routes/ai_routes.py)
\* and DetectionService.segment_by_detection / segment_by_points
\* (services/detection_service.py).  A form string is a sequence of
\* one-character strings.  sg.reached says that the service's segmentation
\* call was entered and sg.sam_requested that it asked for the SAM
\* predictor.

MaxBboxLen == 7
MaxPointsLen == 6
MaxLabelsLen == 3
MaxCoord == 3
MaxImage == 2

Digits == {"0", "1", "2", "3", "4", "5", "6", "7", "8", "9"}

DigitValue(ch) ==
    CASE ch = "0" -> 0 [] ch = "1" -> 1 [] ch = "2" -> 2 [] ch = "3" -> 3
      [] ch = "4" -> 4 [] ch = "5" -> 5 [] ch = "6" -> 6 [] ch = "7" -> 7
      [] ch = "8" -> 8 [] ch = "9" -> 9

\* str.split(sep): the pieces between the separators, empty ones included.
RECURSIVE split(_, _)
split(str, sep) ==
    IF \A i \in DOMAIN str : str[i] # sep
    THEN <<str>>
    ELSE LET i == CHOOSE k \in DOMAIN str :
                     str[k] = sep /\ \A j \in 1..(k - 1) : str[j] # sep
         IN  <<SubSeq(str, 1, i - 1)>> \o split(SubSeq(str, i + 1, Len(str)), sep)

Unsigned(tok) == IF tok # <<>> /\ tok[1] \in {"-", "+"} THEN Tail(tok) ELSE tok

\* int(tok) succeeds: an optional sign and at least one digit (for the
\* characters used here; Python also strips blanks).
is_int(tok) == Unsigned(tok) # <<>> /\ \A i \in DOMAIN Unsigned(tok) : Unsigned(tok)[i] \in Digits

RECURSIVE digits_value(_)
digits_value(ds) ==
    IF ds = <<>> THEN 0
    ELSE 10 * digits_value(SubSeq(ds, 1, Len(ds) - 1)) + DigitValue(ds[Len(ds)])

\* int(tok); a token int() refuses is given 0 here and never used.
int(tok) ==
    IF ~is_int(tok) THEN 0
    ELSE IF tok[1] = "-" THEN 0 - digits_value(Unsigned(tok))
    ELSE digits_value(Unsigned(tok))

Parsed(value) == [ok |-> TRUE, value |-> value, error |-> ""]
ParseError(msg) == [ok |-> FALSE, value |-> <<>>, error |-> msg]

\* the negation of: if len(bbox_coords) != 4
bbox_len_ok(n) == n = 4

\* lines 238-240
parse_bbox(bbox) ==
    LET toks == split(bbox, ",")
    IN  IF \E i \in DOMAIN toks : ~is_int(toks[i])
        THEN ParseError("invalid literal for int()")
        ELSE IF ~bbox_len_ok(Len(toks))
        THEN ParseError("Bbox must be 'x1,y1,x2,y2'")
        ELSE Parsed([i \in DOMAIN toks |-> int(toks[i])])

\* lines 279-282: every piece between ";" must unpack into two integers
parse_points(points) ==
    LET pts == split(points, ";")
        parts(i) == split(pts[i], ",")
    IN  IF \E i \in DOMAIN pts : Len(parts(i)) # 2
        THEN ParseError("not enough / too many values to unpack")
        ELSE IF \E i \in DOMAIN pts : ~is_int(parts(i)[1]) \/ ~is_int(parts(i)[2])
        THEN ParseError("invalid literal for int()")
        ELSE Parsed([i \in DOMAIN pts |-> <<int(parts(i)[1]), int(parts(i)[2])>>])

\* line 285
parse_labels(labels) ==
    LET toks == split(labels, ",")
    IN  IF \E i \in DOMAIN toks : ~is_int(toks[i])
        THEN ParseError("invalid literal for int()")
        ELSE Parsed([i \in DOMAIN toks |-> int(toks[i])])

\* Mutant: the lengths are not compared.
lengths_ok_any(point_list, label_list) == TRUE

\* the negation of: if len(point_list) != len(label_list)
lengths_ok(point_list, label_list) == Len(point_list) = Len(label_list)

\* points and labels parsed and compared (lines 279-288)
parse_prompt(points, labels) ==
    LET p == parse_points(points)
        l == parse_labels(labels)
    IN  IF ~p.ok THEN p
        ELSE IF ~l.ok THEN l
        ELSE IF ~lengths_ok(p.value, l.value)
        THEN ParseError("Points and labels must have same length")
        ELSE Parsed(<<p.value, l.value>>)

\* int(x) of a float: the fraction is dropped, towards zero.
trunc(num, den) == IF num >= 0 THEN num \div den ELSE 0 - ((0 - num) \div den)

\* Mutant: the expanded box is not cut to the image.
clamp_none(lo, v, hi) == v

\* max(0, .) for the near edge, min(size, .) for the far edge
clamp_low(lo, v, hi) == Max2(lo, v)
clamp_high(lo, v, hi) == Min2(hi, v)

\* segment_by_detection, lines 173-186: the box given to the predictor
expand_box(bbox, ratio, width, height) ==
    LET w == bbox[3] - bbox[1]
        h == bbox[4] - bbox[2]
        expand_w == trunc(w * ratio[1], ratio[2])
        expand_h == trunc(h * ratio[1], ratio[2])
    IN  <<clamp_low(0, bbox[1] - expand_w, width),
          clamp_low(0, bbox[2] - expand_h, height),
          clamp_high(0, bbox[3] + expand_w, width),
          clamp_high(0, bbox[4] + expand_h, height)>>

\* The form strings a handler is run with: the fields are required, so
\* the strings are not empty.
StringsUpTo(alphabet, n) == UNION {[1..k -> alphabet] : k \in 1..n}

BboxStrings == StringsUpTo({"1", ",", "x"}, MaxBboxLen)
PointsStrings == StringsUpTo({"1", ",", ";"}, MaxPointsLen)
LabelsStrings == StringsUpTo({"1", ","}, MaxLabelsLen)

\* expand_ratio as a fraction <<numerator, denominator>>
Ratios == {<<0, 1>>, <<1, 10>>, <<1, 2>>, <<3, 2>>, <<0 - 1, 2>>}

NoBox == <<>>

SegmentRequest(endpoint, bbox, points, labels, ratio) ==
    [endpoint |-> endpoint, bbox |-> bbox, points |-> points, labels |-> labels,
     expand_ratio |-> ratio, pc |-> "decode", image |-> NoShape,
     prompt |-> ParseError(""), reached |-> FALSE, sam_requested |-> FALSE,
     input_box |-> NoBox, status |-> 0, detail |-> "", body |-> NoPng]

InitSegment ==
    /\ alphaAwarePaste = FALSE
    /\ \/ \E bbox \in BboxStrings :
             sg = SegmentRequest("segment-object", bbox, <<>>, <<>>, <<1, 10>>)
       \/ \E points \in PointsStrings, labels \in LabelsStrings :
             sg = SegmentRequest("segment-by-points", <<>>, points, labels, <<0, 1>>)
    /\ IdleHelpers /\ IdleCalls /\ IdleCutout /\ IdleProcessAll /\ IdleModels

\* except Exception as e: raise HTTPException(status_code = 500, ...)
segment_failed(r, detail) == [r EXCEPT !.pc = "done", !.status = 500, !.detail = detail]

\* lines 234-235 / 275-276
SgDecode ==
    /\ sg.pc = "decode"
    /\ \/ sg' = [sg EXCEPT !.pc = "parse", !.image = Shape("RGB", MaxImage, MaxImage)]
       \/ sg' = segment_failed(sg, "cannot identify image file")

\* lines 238-246 / 279-288
SgParse ==
    /\ sg.pc = "parse"
    /\ LET res == IF sg.endpoint = "segment-object"
                  THEN parse_bbox(sg.bbox)
                  ELSE parse_prompt(sg.points, sg.labels)
       IN  sg' = IF res.ok
                 THEN [sg EXCEPT !.pc = "segment", !.prompt = res]
                 ELSE segment_failed(sg, res.error)

\* lines 249-253 / 291-295: the service call; it asks for the SAM predictor
\* first, and any exception in it comes back to the handler
SgSegment ==
    /\ sg.pc = "segment"
    /\ LET entered == [sg EXCEPT !.reached = TRUE, !.sam_requested = TRUE]
       IN  \/ sg' = [entered EXCEPT
                        !.pc = "encode",
                        !.input_box = IF sg.endpoint = "segment-object"
                                      THEN expand_box(sg.prompt.value, sg.expand_ratio,
                                                      sg.image.w, sg.image.h)
                                      ELSE NoBox,
                        !.image = Shape("RGBA", @.w, @.h)]
           \/ sg' = segment_failed(entered, "segmentation failed")

\* lines 256-260 / 298-302
SgRespond ==
    /\ sg.pc = "encode"
    /\ sg' = [sg EXCEPT !.pc = "done", !.status = 200, !.body = png_of(sg.image)]

NextSegment ==
    /\ SgDecode \/ SgParse \/ SgSegment \/ SgRespond
    /\ UNCHANGED <<alphaAwarePaste, helperVars, callVars, rq, pa, mm>>

SpecSegment == InitSegment /\ [][NextSegment]_vars

\* DetectionService.segment_by_detection called on its own, with any
\* integer bbox, image size and expand_ratio.
BboxCoords == (0 - 1)..MaxCoord

InitExpand ==
    /\ alphaAwarePaste = FALSE
    /\ \E x1 \in BboxCoords, y1 \in BboxCoords, x2 \in BboxCoords, y2 \in BboxCoords,
          width \in 1..MaxImage, height \in 1..MaxImage, ratio \in Ratios :
          sg = [image |-> Shape("RGB", width, height),
                bbox |-> <<x1, y1, x2, y2>>, expand_ratio |-> ratio,
                pc |-> "call", sam_requested |-> FALSE, input_box |-> NoBox,
                predicted |-> FALSE, raised |-> FALSE, result |-> NoShape]
    /\ IdleHelpers /\ IdleCalls /\ IdleCutout /\ IdleProcessAll /\ IdleModels

\* lines 163-215: get the predictor, expand and clamp the box, predict,
\* return the RGBA cutout; an exception anywhere is logged and raised again
SegmentByDetection ==
    /\ sg.pc = "call"
    /\ LET asked == [sg EXCEPT !.pc = "returned", !.sam_requested = TRUE]
           boxed == [asked EXCEPT
                        !.input_box = expand_box(sg.bbox, sg.expand_ratio,
                                                 sg.image.w, sg.image.h),
                        !.predicted = TRUE]
       IN  \/ sg' = [asked EXCEPT !.raised = TRUE]
           \/ sg' = [boxed EXCEPT !.raised = TRUE]
           \/ sg' = [boxed EXCEPT !.result = Shape("RGBA", sg.image.w, sg.image.h)]

NextExpand ==
    /\ SegmentByDetection
    /\ UNCHANGED <<alphaAwarePaste, helperVars, callVars, rq, pa, mm>>

SpecExpand == InitExpand /\ [][NextExpand]_vars

\* ------------------------------------------------------------ the claims
IsResize == last.op = "resize_to_box"
IsFeather == last.op = "feather_alpha"

Positive(t) == t # None /\ t[1] > 0

\* The last call was resize_to_box with both target dimensions positive.
PositiveTargets == IsResize /\ Positive(last.target_w) /\ Positive(last.target_h)

\* ... and on a source of positive width and height.
ValidResize == PositiveTargets /\ last.in.w > 0 /\ last.in.h > 0

TW == last.target_w[1]
TH == last.target_h[1]

\* C1: for a source of positive size and positive targets, every mode and
\* every pad, resize_to_box returns a canvas of exactly target_w x target_h.
C1_ExactCanvasSize ==
    ValidResize =>
        /\ last.out.ret = "return"
        /\ last.out.img.w = TW
        /\ last.out.img.h = TH
        /\ DOMAIN last.out.img.px = Coords(TW, TH)

\* C1 witness: a padded cover call whose resized image is larger than the
\* target, and a canvas of the target size came back.
C1_Witness ==
    /\ ValidResize
    /\ last.mode = "cover" /\ last.pad > 0
    /\ last.out.new_h > TH /\ last.in.w # TW
    /\ last.out.img.w = TW /\ last.out.img.h = TH

\* C2: in contain mode the resized image is no larger than the target and
\* its paste rectangle lies inside the canvas.
C2_ContainFits ==
    (ValidResize /\ last.mode = "contain") =>
        /\ last.out.new_w <= TW
        /\ last.out.new_h <= TH
        /\ last.out.cx >= 0
        /\ last.out.cy >= 0
        /\ last.out.cx + last.out.new_w <= TW
        /\ last.out.cy + last.out.new_h <= TH

\* C2 witness: a padded contain call that leaves a transparent margin.
C2_Witness ==
    /\ ValidResize /\ last.mode = "contain" /\ last.pad > 0
    /\ last.out.allocated
    /\ last.out.new_w < TW /\ last.out.cx > 0

\* C3: in cover mode the resized image is at least the target in both
\* dimensions, the crop is exactly the target size, it is pasted at (0, 0)
\* and its rectangle covers every canvas pixel.
C3_CoverFills ==
    (ValidResize /\ last.mode = "cover") =>
        /\ last.out.new_w >= TW
        /\ last.out.new_h >= TH
        /\ last.out.crop_w = TW
        /\ last.out.crop_h = TH
        /\ last.out.cx = 0
        /\ last.out.cy = 0
        /\ \A p \in DOMAIN last.out.img.px :
              Inside(p, last.out.cx, last.out.cy, last.out.crop_w, last.out.crop_h)

\* C3 witness: a cover call that had to crop overflow in one dimension.
C3_Witness ==
    /\ ValidResize /\ last.mode = "cover"
    /\ last.out.allocated
    /\ last.out.new_w > TW /\ last.out.x0 > 0
    /\ last.out.new_h = TH

\* The second of two resize_to_box calls: same target and mode, pad = 0,
\* applied to the canvas the first call returned.
SecondCall ==
    /\ IsResize /\ prev.op = "resize_to_box"
    /\ PositiveTargets
    /\ prev.out.allocated

\* C4: resize_to_box applied to its own output with the same target and
\* mode and pad = 0 returns the same canvas: scale 1, resized size (W, H),
\* zero crop and paste offsets, and every pixel equal.
C4_Idempotent ==
    SecondCall =>
        /\ last.out.ret = "return"
        /\ last.out.scale[1] = last.out.scale[2]
        /\ last.out.new_w = TW /\ last.out.new_h = TH
        /\ last.out.x0 = 0 /\ last.out.y0 = 0
        /\ last.out.cx = 0 /\ last.out.cy = 0
        /\ last.out.img = prev.out.img

\* C5: with target_w or target_h absent or zero, resize_to_box returns its
\* input unchanged, whatever the mode and the pad, and does no work.
C5_NoopWithoutTarget ==
    (IsResize /\ (IsFalsy(last.target_w) \/ IsFalsy(last.target_h))) =>
        /\ last.out.ret = "return"
        /\ last.out.img = last.in
        /\ ~last.out.padded /\ ~last.out.resized /\ ~last.out.allocated

\* C5 witness: a call with pad > 0, a zero width and a positive height on
\* a non-empty image.
C5_Witness ==
    /\ IsResize /\ last.pad > 0
    /\ last.target_w = Some(0) /\ Positive(last.target_h)
    /\ last.in.w > 0 /\ last.in.h > 0
    /\ last.out.img = last.in

NonPositive(t) == t # None /\ t[1] <= 0
Negative(t) == t # None /\ t[1] < 0

\* C6 (as claimed): a call with target_w <= 0 or target_h <= 0 ends in an
\* error and never returns an image.
C6_NonPositiveTargetRaises ==
    (IsResize /\ (NonPositive(last.target_w) \/ NonPositive(last.target_h))) =>
        last.out.ret = "raise"

\* C6 (amended): a call with a negative target dimension, and neither
\* dimension zero or absent, ends in an error and never returns an image.
C6_NegativeTargetRaises ==
    (/\ IsResize
     /\ ~IsFalsy(last.target_w) /\ ~IsFalsy(last.target_h)
     /\ (Negative(last.target_w) \/ Negative(last.target_h))) =>
        /\ last.out.ret = "raise"
        /\ last.out.error \in {"ValueError", "ZeroDivisionError"}
        /\ last.out.img = NoImage

\* C6 witness: a cover call with a negative width and a positive height
\* fails at the canvas allocation.
C6_Witness ==
    /\ IsResize /\ last.mode = "cover"
    /\ Negative(last.target_w) /\ Positive(last.target_h)
    /\ last.in.w > 0 /\ last.in.h > 0
    /\ last.out.ret = "raise" /\ last.out.error = "ValueError"

\* C7: positive targets on a source of zero width or height end in an
\* error for every mode and every pad, pad > 0 included.
C7_ZeroSourceRaises ==
    (PositiveTargets /\ (last.in.w = 0 \/ last.in.h = 0)) =>
        last.out.ret = "raise"

\* C8: a mode other than "cover" gives exactly the outcome of mode
\* "contain" on the same image, target and pad, and no error on valid input.
C8_OtherModeIsContain ==
    (IsResize /\ last.mode # "cover") =>
        /\ last.out = resize_to_box(last.in, last.target_w, last.target_h,
                                    "contain", last.pad, alphaAwarePaste)
        /\ ValidResize => last.out.ret = "return"

\* C8 witness: an unrecognized mode on an input where contain and cover differ.
C8_Witness ==
    /\ ValidResize /\ last.mode = "stretch"
    /\ last.out.allocated
    /\ last.out.new_w < TW
    /\ last.out # resize_to_box(last.in, last.target_w, last.target_h,
                                "cover", last.pad, alphaAwarePaste)

\* C9: feather_alpha keeps the width, the height and the R, G, B bands of
\* its input; only alpha may differ.
C9_FeatherKeepsColour ==
    IsFeather =>
        /\ last.out.img.mode = "RGBA"
        /\ last.out.img.w = last.in.w
        /\ last.out.img.h = last.in.h
        /\ DOMAIN last.out.img.px = DOMAIN last.in.px
        /\ \A p \in DOMAIN last.in.px : \A i \in 1 .. 3 :
              last.out.img.px[p][i] = last.in.px[p][i]

\* C9 witness: a blur that changed the alpha of some pixel of an image with
\* more than one colour.
C9_Witness ==
    /\ IsFeather /\ last.radius > 0 /\ last.in.mode = "RGBA"
    /\ \E p \in DOMAIN last.in.px : last.out.img.px[p][4] # last.in.px[p][4]
    /\ \E p, q \in DOMAIN last.in.px : last.in.px[p][1] # last.in.px[q][1]

\* C10: with radius = 0 the result is the RGBA conversion of the input in
\* all four bands.
C10_RadiusZeroIsIdentity ==
    (IsFeather /\ last.radius = 0) =>
        /\ last.out.img.w = last.in.w /\ last.out.img.h = last.in.h
        /\ \A p \in DOMAIN last.in.px :
              last.out.img.px[p] =
                 IF last.in.mode = "RGBA" THEN last.in.px[p]
                 ELSE Append(last.in.px[p], 255)

\* C10 witness: radius 0 on an RGBA image whose alpha is not uniform.
C10_Witness ==
    /\ IsFeather /\ last.radius = 0 /\ last.in.mode = "RGBA"
    /\ \E p, q \in DOMAIN last.in.px : last.in.px[p][4] # last.in.px[q][4]
    /\ last.out.img = last.in

\* C17 (as claimed): a failing resize_to_box has padded, resized and
\* allocated nothing before the error is raised.
C17_FailsBeforeProcessing ==
    (IsResize /\ last.out.ret = "raise") =>
        ~last.out.padded /\ ~last.out.resized /\ ~last.out.allocated

Abs(x) == IF x >= 0 THEN x ELSE -x

\* v is max(1, r) for an integer r nearest to num/den (den > 0).
NearestFlooredAtOne(v, num, den) ==
    /\ v >= 1
    /\ \/ 2 * Abs(v * den - num) <= den
       \/ v = 1 /\ 2 * num < den

\* The concrete scenario of C18: 100x100, pad 10, contain into 100x100.
Scenario3 ==
    resize_to_box(SourceRGBA(100, 100, 0), Some(100), Some(100), "contain", 10, FALSE)

\* C18: with pad > 0 and both targets given, the scale and the resized size
\* are computed from the padded size (w + 2*pad, h + 2*pad); the 100x100
\* source with pad 10 in a 100x100 contain box has effective source
\* 120x120, resized size 100x100 and offset (0, 0).
C18_ScaleFromPaddedSize ==
    /\ (IsResize /\ ~last.out.noop /\ last.pad > 0) =>
          LET pw == last.in.w + 2 * last.pad
              ph == last.in.h + 2 * last.pad
              n == last.out.scale[1]
              d == last.out.scale[2]
          IN  /\ last.out.padded
              /\ last.out.src_w = pw /\ last.out.src_h = ph
              /\ \/ n * pw = TW * d
                 \/ n * ph = TH * d
              /\ (last.out.ret = "return" /\ TW > 0 /\ TH > 0) =>
                    /\ NearestFlooredAtOne(last.out.new_w, pw * n, d)
                    /\ NearestFlooredAtOne(last.out.new_h, ph * n, d)
    /\ Scenario3.src_w = 120 /\ Scenario3.src_h = 120
    /\ Scenario3.scale[1] * 120 = 100 * Scenario3.scale[2]
    /\ Scenario3.new_w = 100 /\ Scenario3.new_h = 100
    /\ Scenario3.cx = 0 /\ Scenario3.cy = 0

\* C18 witness: a padded call whose padded and original sizes give
\* different resized sizes.
C18_Witness ==
    /\ ValidResize /\ last.pad > 0 /\ last.out.allocated
    /\ last.out.src_w = last.in.w + 2 * last.pad
    /\ last.out.new_w # resize_to_box(last.in, last.target_w, last.target_h,
                                      last.mode, 0, alphaAwarePaste).new_w

\* C19: for positive source and target sizes, in every mode, new_w and
\* new_h are the scaled dimensions rounded to a nearest integer with a
\* floor of 1, so the resized image is never zero-sized.
C19_RoundedAtLeastOne ==
    ValidResize =>
        /\ last.out.resized
        /\ NearestFlooredAtOne(last.out.new_w,
                               last.out.src_w * last.out.scale[1], last.out.scale[2])
        /\ NearestFlooredAtOne(last.out.new_h,
                               last.out.src_h * last.out.scale[1], last.out.scale[2])

\* C19 witness: the scaled height rounds to 0 and the floor makes it 1.
C19_Witness ==
    /\ ValidResize /\ last.out.allocated
    /\ 2 * last.out.src_h * last.out.scale[1] <= last.out.scale[2]
    /\ last.out.new_h = 1
    /\ last.out.img.h = TH

\* The concrete scenario of C20: 100x200 in a 200x200 contain box.
Scenario1 ==
    resize_to_box(SourceRGBA(100, 200, 0), Some(200), Some(200), "contain", 0, FALSE)

\* C20: in contain mode the paste offset is the floor of half the spare
\* space, so the right/bottom margin exceeds the left/top one by 0 or 1;
\* a 100x200 source in a 200x200 target is pasted at (50, 0).
C20_ContainCentred ==
    /\ (ValidResize /\ last.mode = "contain") =>
          LET left == last.out.cx
              right == TW - last.out.new_w - last.out.cx
              top == last.out.cy
              bottom == TH - last.out.new_h - last.out.cy
          IN  /\ right - left \in {0, 1}
              /\ bottom - top \in {0, 1}
    /\ Scenario1.new_w = 100 /\ Scenario1.new_h = 200
    /\ Scenario1.cx = 50 /\ Scenario1.cy = 0

\* C20 witness: an odd spare width, the extra pixel on the right.
C20_Witness ==
    /\ ValidResize /\ last.mode = "contain" /\ last.out.allocated
    /\ TW - last.out.new_w - last.out.cx = last.out.cx + 1
    /\ last.out.new_h = TH

\* The outcome of caller c's call run alone, as one function application.
Alone(c) ==
    IF cs[c].call.op = "resize_to_box"
    THEN resize_to_box(cs[c].call.input, cs[c].call.target_w, cs[c].call.target_h,
                       cs[c].call.mode, cs[c].call.pad, alphaAwarePaste)
    ELSE [BlankFrame EXCEPT !.img = feather_alpha(cs[c].call.input, cs[c].call.radius)]

\* C11: at every point of a feather_alpha or resize_to_box call, and after
\* it has returned or raised, the caller's source image has the size and
\* pixels it had before the call.
C11_InputNotMutated ==
    \A c \in Callers : heap[<<c, "arg">>] = cs[c].call.input

\* C11 witness: a feathering that changed alpha has returned and a padded
\* resize has finished, both with their sources as they were.
C11_Witness ==
    /\ \E c \in Callers :
          /\ cs[c].call.op = "feather_alpha" /\ cs[c].call.radius > 0
          /\ cs[c].pc = "done"
          /\ heap[cs[c].result] # cs[c].call.input
          /\ heap[<<c, "arg">>] = cs[c].call.input
    /\ \E c \in Callers :
          /\ cs[c].call.op = "resize_to_box" /\ cs[c].call.pad > 0
          /\ cs[c].pc = "done"
          /\ heap[<<c, "arg">>] = cs[c].call.input

\* C12: whatever the interleaving of the two callers' steps, a finished
\* call has the outcome (return or error, and the returned pixels) that
\* the same call has when it runs alone.
C12_InterleavingSameAsAlone ==
    \A c \in Callers :
        cs[c].pc = "done" =>
            /\ cs[c].ret = Alone(c).ret
            /\ cs[c].error = Alone(c).error
            /\ cs[c].ret = "return" => heap[cs[c].result] = Alone(c).img

\* C12 witness: two resize_to_box calls that built different canvases have
\* both returned, each having taken steps while the other was mid-call.
C12_Witness ==
    /\ \A c \in Callers :
          /\ cs[c].pc = "done" /\ cs[c].mixed
          /\ cs[c].call.op = "resize_to_box" /\ cs[c].ret = "return"
          /\ cs[c].result = <<c, "canvas">>
          /\ heap[cs[c].result] = Alone(c).img
    /\ heap[cs[1].result] # heap[cs[2].result]

\* Position of a step in the order the claim gives.
ClaimedRank(step) ==
    CASE step = "decode" -> 1 [] step = "remove" -> 2 [] step = "feather" -> 3
      [] step = "resize" -> 4 [] step = "encode" -> 5

InLog(step) == \E i \in DOMAIN rq.log : rq.log[i] = step

\* C13: in a /cutout request the completed steps follow the order decode,
\* background removal, feathering, resize_to_box, PNG encoding; when
\* feathering ran, resize_to_box was given its result; and a 200 response
\* carries the PNG of what resize_to_box returned.
C13_CutoutStepOrder ==
    /\ \A i, j \in DOMAIN rq.log :
          i < j => ClaimedRank(rq.log[i]) < ClaimedRank(rq.log[j])
    /\ (InLog("resize") \/ rq.status = 500) =>
          (InLog("feather") => rq.resize_in = rq.feather_out)
    /\ InLog("feather") => rq.feather_out # NoImage
    /\ rq.status = 200 =>
          /\ InLog("decode") /\ InLog("remove") /\ InLog("resize") /\ InLog("encode")
          /\ feather_wanted(rq.feather) => InLog("feather")
          /\ rq.out_img = resize_to_box(rq.resize_in, rq.width, rq.height, rq.mode,
                                        rq.pad, alphaAwarePaste).img
          /\ rq.body = [format |-> "PNG", mode |-> rq.out_img.mode, w |-> rq.out_img.w,
                        h |-> rq.out_img.h, px |-> rq.out_img.px]

\* C13 witness: a finished request that feathered (changing the cutout)
\* and then fitted the feathered image onto a canvas of another size.
C13_Witness ==
    /\ rq.status = 200
    /\ rq.log = <<"decode", "remove", "feather", "resize", "encode">>
    /\ rq.resize_in = rq.feather_out
    /\ rq.feather_out # remove(rq.src, 0) /\ rq.feather_out # remove(rq.src, 1)
    /\ rq.out_img.w # rq.resize_in.w
    /\ rq.body.w = rq.out_img.w /\ rq.body.format = "PNG"

\* The optional steps in the order the claim gives.
ClaimedSteps == <<"remove_bg", "denoise", "auto_enhance", "enhance_face", "upscale">>

StepRank(step) == CHOOSE i \in DOMAIN ClaimedSteps : ClaimedSteps[i] = step

Ran(step) == \E i \in DOMAIN pa.log : pa.log[i] = step

\* C14: in /ai/process-all the optional steps that run do so in the order
\* background removal, denoise, auto-enhance, face enhancement, upscale,
\* each at most once and only with its flag set; a step that fails ends the
\* request with HTTP 500 and no later step runs; a 200 response has run
\* every flagged step.
C14_ProcessAllOrder ==
    /\ \A i \in DOMAIN pa.log : pa.log[i] \in {ClaimedSteps[k] : k \in DOMAIN ClaimedSteps}
    /\ \A i, j \in DOMAIN pa.log : i < j => StepRank(pa.log[i]) < StepRank(pa.log[j])
    /\ \A k \in DOMAIN ClaimedSteps :
          Ran(ClaimedSteps[k]) =>
             CASE k = 1 -> pa.remove_bg [] k = 2 -> pa.denoise [] k = 3 -> pa.auto_enhance
               [] k = 4 -> pa.enhance_face [] k = 5 -> pa.upscale
    /\ pa.failed # "" =>
          /\ pa.status = 500 /\ pa.at = 0
          /\ ~Ran(pa.failed)
          /\ pa.failed # "decode" =>
                \A i \in DOMAIN pa.log : StepRank(pa.log[i]) < StepRank(pa.failed)
          /\ pa.failed = "decode" => pa.log = <<>>
    /\ pa.status = 200 =>
          /\ pa.failed = ""
          /\ (pa.remove_bg <=> Ran("remove_bg")) /\ (pa.denoise <=> Ran("denoise"))
          /\ (pa.auto_enhance <=> Ran("auto_enhance"))
          /\ (pa.enhance_face <=> Ran("enhance_face")) /\ (pa.upscale <=> Ran("upscale"))
          /\ pa.body.format = "PNG" /\ pa.body.mode = "RGBA"
          /\ pa.body.w = pa.file.w * (IF pa.upscale THEN pa.upscale_factor ELSE 1)

\* C14 witness: a request with all five flags whose fourth step failed
\* after the first three had run.
C14_Witness ==
    /\ pa.remove_bg /\ pa.denoise /\ pa.auto_enhance /\ pa.enhance_face /\ pa.upscale
    /\ pa.failed = "enhance_face" /\ pa.status = 500
    /\ pa.log = <<"remove_bg", "denoise", "auto_enhance">>

\* C15 as stated: over any sequence of the ModelManager's public
\* operations the load of each model runs at most once.
C15_LoadedAtMostOnce == \A n \in ModelNames : mm.attempts[n] <= 1

\* C15, amended: a load that stores a handle happens only while the model
\* has no entry, so each model's stored loads number exactly its removed
\* entries plus the entry it has now; and a get_* that found the entry ran
\* no load.
C15_LoadedOncePerEntry ==
    /\ \A n \in ModelNames :
          /\ mm.loaded[n] = mm.removed[n] + (IF n \in DOMAIN mm._models THEN 1 ELSE 0)
          /\ mm.loaded[n] <= mm.attempts[n]
          /\ n \in DOMAIN mm._models => mm._models[n] = <<n, mm.loaded[n]>>

\* C15 witness: a model loaded, unloaded, and loaded a second time.
C15_Witness ==
    \E n \in ModelNames :
       /\ mm.loaded[n] = 2 /\ mm.removed[n] = 1 /\ n \in DOMAIN mm._models
       /\ mm.last.op = "get" /\ mm.last.name = n /\ mm.last.loaded

\* The step is a get_* for model n.
IsGet(n) == mm'.calls = mm.calls + 1 /\ mm'.last.op = "get" /\ mm'.last.name = n

\* C16: a get_* for a model that an earlier get_* returned, with no unload
\* of it since, returns that same handle and runs neither load nor
\* download; and an entry leaves the dictionary only in unload_model of its
\* name or in unload_all.
C16_Memoised ==
    [][\A n \in ModelNames :
          /\ (IsGet(n) /\ mm.held[n] # None) =>
                /\ mm'.last.ret = mm.held[n][1]
                /\ ~mm'.last.loaded /\ ~mm'.last.downloaded
                /\ mm'.attempts = mm.attempts /\ mm'.loaded = mm.loaded
                /\ mm'.files = mm.files /\ mm'._models = mm._models
          /\ (n \in DOMAIN mm._models /\ n \notin DOMAIN mm'._models) =>
                \/ mm'.last.op = "unload_all"
                \/ mm'.last.op = "unload_model" /\ mm'.last.name = n]_vars

\* C16 witness: a second get_* of a model, after another model was
\* unloaded in between, answered from the dictionary.
C16_Witness ==
    \E n \in ModelNames :
       /\ mm.last.op = "get" /\ mm.last.name = n /\ ~mm.last.loaded
       /\ mm.last.ret = <<n, 1>> /\ mm.held[n] = Some(<<n, 1>>)
       /\ mm.attempts[n] = 1
       /\ \E o \in ModelNames \ {n} : mm.removed[o] = 1

\* The 100x200 source of scenario 2 fitted into 200x200 in cover mode.
Scenario2 == resize_to_box(SourceRGBA(100, 200, 0), Some(200), Some(200), "cover", 0,
                           alphaAwarePaste)

\* v is the floor of d / 2 when d > 0, and 0 otherwise.
HalfOfExcess(v, d) == IF d > 0 THEN 2 * v <= d /\ d < 2 * v + 2 ELSE v = 0

\* C21: a cover-mode call that returns a canvas cropped the resized image
\* at x0 = floor((new_w - target_w) / 2) when new_w > target_w and 0
\* otherwise (same for y0); the crop box lies inside the resized image and
\* is no larger than the target; and the 100x200 source in a 200x200 target
\* is resized to 200x400 and cropped at y0 = 100.
C21_CoverCentreCrop ==
    /\ (ValidResize /\ last.mode = "cover" /\ last.out.ret = "return" /\ ~last.out.noop) =>
          /\ HalfOfExcess(last.out.x0, last.out.new_w - TW)
          /\ HalfOfExcess(last.out.y0, last.out.new_h - TH)
          /\ 0 <= last.out.x0 /\ 0 <= last.out.y0
          /\ last.out.x0 + Min2(TW, last.out.new_w) <= last.out.new_w
          /\ last.out.y0 + Min2(TH, last.out.new_h) <= last.out.new_h
          /\ last.out.crop_w = Min2(TW, last.out.new_w)
          /\ last.out.crop_h = Min2(TH, last.out.new_h)
          /\ last.out.crop_w <= TW /\ last.out.crop_h <= TH
    /\ Scenario2.new_w = 200 /\ Scenario2.new_h = 400
    /\ Scenario2.x0 = 0 /\ Scenario2.y0 = 100
    /\ Scenario2.crop_w = 200 /\ Scenario2.crop_h = 200
    /\ Scenario2.cx = 0 /\ Scenario2.cy = 0

\* C21 witness: a cover call whose resized image was taller than the
\* target and was cropped below its top edge.
C21_Witness ==
    /\ ValidResize /\ last.mode = "cover" /\ last.out.ret = "return"
    /\ last.out.new_h > TH /\ last.out.y0 > 0
    /\ last.out.crop_h = TH /\ last.out.img.h = TH

\* The step is a construction ModelManager().
IsConstruct == mm'.n = mm.n + 1

\* What a construction may not touch once the manager is initialised.
ManagerState(m) ==
    <<m._instance, m._initialized, m._models, m.device, m.models_cache_dir,
      m.dir_exists, m.allocs, m.init_entries, m.init_done>>

\* C22 as stated: the initialisation body runs exactly once, on the first
\* construction.
C22_InitBodyOnFirstOnly == mm.n >= 1 => mm.init_entries = 1

\* C22, amended: one object is ever created and every construction that
\* returns gives that object; the initialisation body is entered on each
\* construction until it has finished once (a failing os.makedirs leaves
\* the manager uninitialised), and finishes at most once; a construction of
\* an initialised manager changes no state.
C22_SingletonInitOnce ==
    [][/\ mm'.allocs <= 1 /\ mm'.init_done <= 1
       /\ (mm'.init_done = 1) <=> mm'._initialized
       /\ IsConstruct =>
             /\ mm'._instance = Some(1)
             /\ ~mm'.last.raised => mm'.last.ret = Some(1) /\ mm'._initialized
             /\ mm'.last.raised => ~mm'._initialized /\ ~mm._initialized
             /\ mm'.last.ran_init <=> ~mm._initialized
             /\ mm._initialized => ManagerState(mm') = ManagerState(mm)
             /\ ~mm._initialized =>
                   /\ mm'.init_entries = mm.init_entries + 1
                   /\ mm'.device = mm.settings_device
                   /\ mm'.models_cache_dir = "./models_cache"
                   /\ mm'._models = mm._models]_vars

\* C22 witness: a third construction, after models were cached and the
\* cache directory was removed, that returned the one instance and ran
\* nothing.
C22_Witness ==
    /\ mm.n = 3 /\ mm.last.ret = Some(1) /\ ~mm.last.raised /\ ~mm.last.ran_init /\ mm.last.was_initialized
    /\ mm.init_done = 1 /\ mm.init_entries = 1 /\ mm.allocs = 1
    /\ mm._models = {"sam", "yolo"} /\ ~mm.dir_exists

\* The step is a get_* for model n that raised.
GetRaised(n) == IsGet(n) /\ mm'.last.ret = <<"raise", 0>>

\* C23: a get_* that raises (import, download, unknown model name or
\* construction failure) leaves _models as it was, with no entry for its
\* model; and a get_* for a model without an entry always enters the load
\* again, however earlier attempts ended.
C23_FailedLoadLeavesCache ==
    [][\A n \in ModelNames :
          /\ GetRaised(n) =>
                /\ mm'.last.error \in {"ImportError", "ValueError", "URLError", "RuntimeError"}
                /\ mm'._models = mm._models
                /\ n \notin DOMAIN mm'._models
                /\ mm'.loaded = mm.loaded /\ mm'.removed = mm.removed
          /\ (IsGet(n) /\ n \notin DOMAIN mm._models) =>
                /\ mm'.last.loaded
                /\ mm'.attempts[n] = mm.attempts[n] + 1
          /\ (IsGet(n) /\ mm'.last.ret # <<"raise", 0>>) =>
                /\ n \in DOMAIN mm'._models /\ mm'.last.ret = mm'._models[n]]_vars

\* C23 witness: a load that failed while another model was cached, and
\* the next get_* of the failed model loading it.
C23_Witness ==
    \E n \in ModelNames : \E o \in ModelNames \ {n} :
       /\ mm.last.op = "get" /\ mm.last.name = n /\ mm.last.ret = <<n, 1>>
       /\ mm.attempts[n] = 2 /\ mm.loaded[n] = 1 /\ mm.removed[n] = 0
       /\ o \in DOMAIN mm._models /\ mm._models[o] = <<o, 1>>

\* C25: a get_* downloads only the weight file of its own model, and only
\* when no file is at the cache path (and, for SAM, no configured
\* checkpoint exists) and the URL table has the model; with a file present
\* nothing is downloaded and no file changes; for an ESRGAN model or GFPGAN
\* version outside the URL table with no file present the load raises
\* ValueError (unless the import already failed) and no file changes.
C25_DownloadOnlyWhenMissing ==
    [][/\ mm'.files # mm.files => mm'.last.op = "get" /\ mm'.last.downloaded
       /\ \A n \in ModelNames :
             IsGet(n) =>
                /\ mm'.last.downloaded =>
                      /\ n \in {"sam", "esrgan", "gfpgan"}
                      /\ mm.files[n] = "absent"
                      /\ n = "sam" => ~mm.cfg.sam_checkpoint
                      /\ n = "esrgan" => mm.cfg.esrgan_known
                      /\ n = "gfpgan" => mm.cfg.gfpgan_known
                      /\ n \notin DOMAIN mm._models
                      /\ \A o \in {"sam", "esrgan", "gfpgan"} \ {n} :
                            mm'.files[o] = mm.files[o]
                /\ (n \in {"sam", "esrgan", "gfpgan"} /\ mm.files[n] # "absent") =>
                      ~mm'.last.downloaded /\ mm'.files = mm.files
                /\ (/\ n = "esrgan" /\ ~mm.cfg.esrgan_known /\ mm.files[n] = "absent") =>
                      /\ mm'.last.error \in {"ValueError", "ImportError"}
                      /\ ~mm'.last.downloaded /\ mm'.files = mm.files
                /\ (/\ n = "gfpgan" /\ ~mm.cfg.gfpgan_known /\ mm.files[n] = "absent") =>
                      /\ mm'.last.error \in {"ValueError", "ImportError"}
                      /\ ~mm'.last.downloaded /\ mm'.files = mm.files
                /\ (/\ mm'.last.loaded /\ mm'.last.error # "ImportError"
                    /\ n \in {"esrgan", "gfpgan"} /\ mm.files[n] = "absent"
                    /\ (n = "esrgan" => mm.cfg.esrgan_known)
                    /\ (n = "gfpgan" => mm.cfg.gfpgan_known)) =>
                      mm'.last.downloaded]_vars

\* C25 witness: GFPGAN loaded from a file that was already there with no
\* download, after an ESRGAN load with an unknown model name and no file
\* raised ValueError, and after the SAM checkpoint was downloaded.
C25_Witness ==
    /\ mm.last.op = "get" /\ mm.last.name = "gfpgan" /\ mm.last.ret = <<"gfpgan", 1>>
    /\ mm.last.loaded /\ ~mm.last.downloaded /\ mm.files["gfpgan"] = "complete"
    /\ mm.attempts["gfpgan"] = 1
    /\ ~mm.cfg.esrgan_known /\ mm.attempts["esrgan"] = 1 /\ mm.files["esrgan"] = "absent"
    /\ ~mm.cfg.sam_checkpoint /\ mm.attempts["sam"] = 1 /\ mm.loaded["sam"] = 1

\* Both callers have returned from the same get_*.
BothReturned ==
    /\ \A c \in {1, 2} : mm.callers[c].pc = "done"
    /\ mm.callers[1].name = mm.callers[2].name

\* C24: when two concurrent callers of the same get_* on an empty cache
\* have both returned, the model was loaded exactly once and both hold the
\* same handle.
C24_ConcurrentGetLoadsOnce ==
    BothReturned =>
       /\ mm.loads[mm.callers[1].name] = 1
       /\ mm.callers[1].ret = mm.callers[2].ret

\* The same for callers that the event loop runs one after the other.
SerializedGetLoadsOnce == ~mm.threads => C24_ConcurrentGetLoadsOnce

\* C26: a /cutout request whose upload cannot be read or decoded ends
\* with HTTP 400 "Invalid image file" and with nothing else: a request that
\* ends in 400 has run no background removal, feathering or resizing, and
\* 400 is given for undecodable uploads only.
C26_InvalidUploadIs400 ==
    /\ rq.file = Garbage =>
          /\ rq.log = <<>> /\ rq.status \in {0, 400}
          /\ rq.at = 0 => rq.status = 400
    /\ rq.status = 400 =>
          /\ rq.file = Garbage /\ rq.detail = "Invalid image file" /\ rq.at = 0
          /\ rq.log = <<>>
          /\ rq.src = NoImage /\ rq.cut = NoImage /\ rq.out_img = NoImage
          /\ rq.resize_in = NoImage /\ rq.feather_out = NoImage
          /\ rq.body.format = ""

\* C26 witness: a finished request with an undecodable upload, feathering
\* and a target size asked for.
C26_Witness ==
    /\ rq.file = Garbage /\ rq.at = 0 /\ rq.status = 400
    /\ rq.feather = 2 /\ rq.width = Some(3) /\ rq.height = Some(2)

\* The pieces of a form string between separators, counted without the
\* split of the handlers: one more than the separators.
Pieces(str, sep) == Cardinality({i \in DOMAIN str : str[i] = sep}) + 1

\* Every piece of str between occurrences of the separators in seps is one
\* or more digits (the alphabets here have no sign except in labels).
AllNumbers(str, seps) ==
    /\ str # <<>> /\ str[1] \notin seps /\ str[Len(str)] \notin seps
    /\ \A i \in DOMAIN str : str[i] \in seps \cup {"0", "1", "2", "3", "4", "5", "6", "7", "8", "9"}
    /\ \A i \in 1..(Len(str) - 1) : ~(str[i] \in seps /\ str[i + 1] \in seps)

\* The prompt of the request is well formed: four integers, or as many
\* points "x,y" as labels.
WellFormed ==
    IF sg.endpoint = "segment-object"
    THEN AllNumbers(sg.bbox, {","}) /\ Pieces(sg.bbox, ",") = 4
    ELSE /\ AllNumbers(sg.points, {",", ";"}) /\ AllNumbers(sg.labels, {","})
         /\ Pieces(sg.points, ",") = Pieces(sg.points, ";") + 1
         /\ \A i \in DOMAIN sg.points :
               sg.points[i] = ";" =>
                  Cardinality({j \in 1..i : sg.points[j] = ","})
                     = Cardinality({j \in 1..i : sg.points[j] = ";"})
         /\ \A i \in DOMAIN sg.points :
               sg.points[i] = "," =>
                  Cardinality({j \in 1..i : sg.points[j] = ","})
                     = Cardinality({j \in 1..i : sg.points[j] = ";"}) + 1
         /\ Pieces(sg.points, ";") = Pieces(sg.labels, ",")

\* C27: a segment request with a malformed prompt never enters the
\* service's segmentation call and never asks for the SAM model, and when
\* it ends it ends with HTTP 500.
C27_MalformedPromptIs500 ==
    ~WellFormed =>
       /\ ~sg.reached /\ ~sg.sam_requested /\ sg.input_box = <<>>
       /\ sg.pc \in {"decode", "parse", "done"}
       /\ sg.pc = "done" => sg.status = 500

\* C27 witness: both kinds of malformed prompt ended in 500 after the
\* upload was decoded: three coordinates, or two points with one label.
C27_Witness ==
    /\ sg.pc = "done" /\ sg.status = 500 /\ sg.image.mode = "RGB" /\ ~sg.reached
    /\ \/ sg.endpoint = "segment-object" /\ sg.bbox = <<"1", ",", "1", ",", "1">>
       \/ /\ sg.endpoint = "segment-by-points"
          /\ sg.points = <<"1", ",", "1">> /\ sg.labels = <<"1", ",", "1">>

\* The bbox given to segment_by_detection lies inside the image and is
\* ordered.
BboxInside ==
    /\ 0 <= sg.bbox[1] /\ sg.bbox[1] <= sg.bbox[3] /\ sg.bbox[3] <= sg.image.w
    /\ 0 <= sg.bbox[2] /\ sg.bbox[2] <= sg.bbox[4] /\ sg.bbox[4] <= sg.image.h

\* C28: with expand_ratio >= 0 the box passed to the predictor has
\* x1 >= 0, y1 >= 0, x2 <= image.width and y2 <= image.height for any
\* bbox, and it contains the bbox when the bbox is ordered and inside the
\* image.
C28_ExpandedBoxClamped ==
    (sg.predicted /\ sg.expand_ratio[1] >= 0) =>
       /\ sg.input_box[1] >= 0 /\ sg.input_box[2] >= 0
       /\ sg.input_box[3] <= sg.image.w /\ sg.input_box[4] <= sg.image.h
       /\ BboxInside =>
             /\ sg.input_box[1] <= sg.bbox[1] /\ sg.input_box[2] <= sg.bbox[2]
             /\ sg.input_box[3] >= sg.bbox[3] /\ sg.input_box[4] >= sg.bbox[4]

\* C28 witness: a bbox inside the image was expanded by one pixel on each
\* side and cut back to the image on the far sides.
C28_Witness ==
    /\ sg.predicted /\ sg.result # NoShape
    /\ sg.bbox = <<1, 1, 2, 2>> /\ sg.expand_ratio = <<3, 2>>
    /\ sg.image.w = 2 /\ sg.image.h = 2
    /\ sg.input_box = <<0, 0, 2, 2>>

====
